---- MODULE Spec2Model ----
(***************************************************************************)
(* Model of the BigQuery dataset allow-list validator                      *)
(* (internal/tools/bigquery/bigquerycommon): the dry-run / lexical         *)
(* cross-check ValidateQueryAgainstAllowedDatasets, the table extractor    *)
(* TableParser with its state machine parseSQL, the identifier scanner     *)
(* parseIdentifierSequence and the auditor IsAnyTableExplicitlyReferenced. *)
(*                                                                         *)
(* A Go string is modelled as a sequence of one-character strings (its     *)
(* code points); indices are 0-based as in the source, At(r, i) reads      *)
(* r[i].                                                                   *)
(***************************************************************************)
EXTENDS Integers, Sequences, FiniteSets, TLC

(***************************************************************************)
(* Characters and the string functions of the Go library the code uses.    *)
(***************************************************************************)
UpperLetters ==
    {"A","B","C","D","E","F","G","H","I","J","K","L","M",
     "N","O","P","Q","R","S","T","U","V","W","X","Y","Z"}

LowerLetters ==
    {"a","b","c","d","e","f","g","h","i","j","k","l","m",
     "n","o","p","q","r","s","t","u","v","w","x","y","z"}

Digits == {"0","1","2","3","4","5","6","7","8","9"}

\* The backtick code point (a TLA+ string cannot hold the character itself).
Backtick == "<backtick>"

ToLowerTable ==
    ("A" :> "a") @@ ("B" :> "b") @@ ("C" :> "c") @@ ("D" :> "d") @@
    ("E" :> "e") @@ ("F" :> "f") @@ ("G" :> "g") @@ ("H" :> "h") @@
    ("I" :> "i") @@ ("J" :> "j") @@ ("K" :> "k") @@ ("L" :> "l") @@
    ("M" :> "m") @@ ("N" :> "n") @@ ("O" :> "o") @@ ("P" :> "p") @@
    ("Q" :> "q") @@ ("R" :> "r") @@ ("S" :> "s") @@ ("T" :> "t") @@
    ("U" :> "u") @@ ("V" :> "v") @@ ("W" :> "w") @@ ("X" :> "x") @@
    ("Y" :> "y") @@ ("Z" :> "z")

\* A letter outside ASCII (two bytes in UTF-8), written as an atom.
EAcute == "<e-acute>"

\* unicode.IsLetter, unicode.IsNumber, unicode.IsSpace on the model's alphabet.
IsLetter(c) == c \in UpperLetters \/ c \in LowerLetters \/ c = EAcute
IsNumber(c) == c \in Digits
IsSpace(c) == c \in {" ", "\n", "\t"}

\* strings.ToLower, one code point and a whole string.
LowerChar(c) == IF c \in UpperLetters THEN ToLowerTable[c] ELSE c
ToLower(s) == [k \in 1..Len(s) |-> LowerChar(s[k])]

\* r[i] and r[i:], r[i:j] of a rune slice, 0-based.
At(r, i) == r[i + 1]
From(r, i) == SubSeq(r, i + 1, Len(r))
Slice(r, i, j) == SubSeq(r, i + 1, j)

\* strings.HasPrefix(string(r[i:]), p)
HasPrefixAt(r, i, p) ==
    /\ i + Len(p) <= Len(r)
    /\ \A k \in 1..Len(p) : r[i + k] = p[k]

\* strings.HasPrefix(s, p)
HasPrefix(s, p) == HasPrefixAt(s, 0, p)

\* The UTF-8 length of a code point, and len(s) of a Go string: a byte count.
UTF8Len(c) == IF c = EAcute THEN 2 ELSE 1

RECURSIVE ByteLen(_)
ByteLen(s) == IF Len(s) = 0 THEN 0 ELSE UTF8Len(s[1]) + ByteLen(Tail(s))

\* strings.Index(string(r[i:]), p): the byte offset of the first occurrence of
\* p at or after r[i], relative to r[i]; -1 if there is none.
IndexFrom(r, i, p) ==
    LET hits == {k \in i..Len(r) : HasPrefixAt(r, k, p)}
    IN  IF hits = {} THEN -1
        ELSE ByteLen(Slice(r, i, CHOOSE k \in hits : \A m \in hits : k <= m))

\* strings.Split(s, "."): the pieces between dots, empty pieces included.
RECURSIVE SplitFrom(_, _, _)
SplitFrom(s, i, cur) ==
    IF i >= Len(s) THEN <<cur>>
    ELSE IF At(s, i) = "." THEN <<cur>> \o SplitFrom(s, i + 1, <<>>)
    ELSE SplitFrom(s, i + 1, Append(cur, At(s, i)))

Split(s) == SplitFrom(s, 0, <<>>)

\* strings.Join(parts, ".")
RECURSIVE Join(_)
Join(parts) ==
    IF Len(parts) = 0 THEN <<>>
    ELSE IF Len(parts) = 1 THEN parts[1]
    ELSE parts[1] \o <<".">> \o Join(Tail(parts))

\* parts[j:] of a slice of strings, 0-based.
PartsFrom(parts, j) == SubSeq(parts, j + 1, Len(parts))

(***************************************************************************)
(* parserState and the keyword tables.                                     *)
(***************************************************************************)
stateNormal == "Normal"
stateInSingleQuoteString == "SingleQuoteString"
stateInDoubleQuoteString == "DoubleQuoteString"
stateInTripleSingleQuoteString == "TripleSingleQuoteString"
stateInTripleDoubleQuoteString == "TripleDoubleQuoteString"
stateInRawSingleQuoteString == "RawSingleQuoteString"
stateInRawDoubleQuoteString == "RawDoubleQuoteString"
stateInRawTripleSingleQuoteString == "RawTripleSingleQuoteString"
stateInRawTripleDoubleQuoteString == "RawTripleDoubleQuoteString"
stateInSingleLineCommentDash == "SingleLineCommentDash"
stateInSingleLineCommentHash == "SingleLineCommentHash"
stateInMultiLineComment == "MultiLineComment"

kwFrom == <<"f","r","o","m">>
kwJoin == <<"j","o","i","n">>
kwUpdate == <<"u","p","d","a","t","e">>
kwInto == <<"i","n","t","o">>
kwTable == <<"t","a","b","l","e">>
kwUsing == <<"u","s","i","n","g">>
kwInsert == <<"i","n","s","e","r","t">>
kwMerge == <<"m","e","r","g","e">>
kwWhere == <<"w","h","e","r","e">>
kwGroup == <<"g","r","o","u","p">>
kwHaving == <<"h","a","v","i","n","g">>
kwOrder == <<"o","r","d","e","r">>
kwLimit == <<"l","i","m","i","t">>
kwWindow == <<"w","i","n","d","o","w">>
kwOn == <<"o","n">>
kwSet == <<"s","e","t">>
kwWhen == <<"w","h","e","n">>
kwWith == <<"w","i","t","h">>
kwAs == <<"a","s">>
kwOr == <<"o","r">>
kwReplace == <<"r","e","p","l","a","c","e">>
kwCall == <<"c","a","l","l">>
kwExecute == <<"e","x","e","c","u","t","e">>
kwImmediate == <<"i","m","m","e","d","i","a","t","e">>
kwProcedure == <<"p","r","o","c","e","d","u","r","e">>
kwFunction == <<"f","u","n","c","t","i","o","n">>
kwSchema == <<"s","c","h","e","m","a">>
kwDataset == <<"d","a","t","a","s","e","t">>
kwCreateOr == <<"c","r","e","a","t","e"," ","o","r">>
kwCreateOrReplace ==
    <<"c","r","e","a","t","e"," ","o","r"," ","r","e","p","l","a","c","e">>

verbCreate == <<"c","r","e","a","t","e">>
verbAlter == <<"a","l","t","e","r">>
verbDrop == <<"d","r","o","p">>
verbSelect == <<"s","e","l","e","c","t">>
verbInsert == <<"i","n","s","e","r","t">>
verbUpdate == <<"u","p","d","a","t","e">>
verbDelete == <<"d","e","l","e","t","e">>
verbMerge == <<"m","e","r","g","e">>

StatementVerbs ==
    {verbCreate, verbAlter, verbDrop, verbSelect,
     verbInsert, verbUpdate, verbDelete, verbMerge}

tableFollowsKeywords ==
    {kwFrom, kwJoin, kwUpdate, kwInto, kwTable, kwUsing, kwInsert, kwMerge}

tableContextExitKeywords ==
    {kwWhere, kwGroup, kwHaving, kwOrder, kwLimit, kwWindow, kwOn, kwSet, kwWhen}

\* The errors the parser and the auditor return, by kind.
NoErr == "none"
ErrUnclosedBacktick == "unclosed backtick identifier"
ErrUnclosedSubquery == "unclosed subquery parenthesis"
ErrCall == "CALL is not allowed"
ErrExecuteImmediate == "EXECUTE IMMEDIATE is not allowed"
ErrUnanalyzable == "unanalyzable statements are not allowed"
ErrDatasetLevel == "dataset-level operations are not allowed"
ErrMissingProject == "table without project ID"
\* A slice expression behind the capacity: the Go run time panics. This is
\* no error value a function returns: the call does not return at all, and
\* no caller recovers. The model carries it in the err field of each result
\* up to the outermost call, which ends without a result.
ErrPanic == "panic: slice bounds out of range"

(***************************************************************************)
(* The capacity of a rune slice. []rune(s) yields a slice whose capacity   *)
(* may exceed its length; the elements between length and capacity are     *)
(* zero. A slice expression r[a:b] is bounded by the capacity, not by the  *)
(* length: with b behind the length it takes in zero code points, and it   *)
(* panics only with b behind the capacity. The Go run time converts into   *)
(* a buffer of 32 code points on the stack when the slice does not escape  *)
(* and the text fits, and otherwise into a heap block of the next size     *)
(* class; which of the two a conversion gets is decided by the compiler.   *)
(***************************************************************************)
VARIABLE
    stackBuffer       \* the conversions of this build use the stack buffer

\* The zero code point, written as an atom.
Nul == "<nul>"

\* The size classes of the allocator, in bytes.
SizeClasses ==
    {8, 16, 24, 32, 48, 64, 80, 96, 112, 128, 144, 160, 176, 192, 208, 224, 240, 256,
     288, 320, 352, 384, 416, 448, 480, 512, 576, 640, 704, 768, 896, 1024, 1152,
     1280, 1408, 1536, 1792, 2048, 2304, 2688, 3072, 3200, 3456, 4096, 4864, 5120,
     5376, 6144, 6528, 6784, 6912, 8192, 9472, 9728, 10240, 10880, 12288, 13568,
     14336, 16384, 18432, 19072, 20480, 21760, 24576, 27264, 28672, 32768}

\* The size of the block that holds bytes bytes: the next size class, whole
\* pages of 8192 bytes above the largest.
RoundUpSize(bytes) ==
    IF bytes = 0 THEN 0
    ELSE IF bytes > 32768 THEN ((bytes + 8191) \div 8192) * 8192
    ELSE CHOOSE class \in SizeClasses :
            /\ class >= bytes
            /\ \A other \in SizeClasses : other >= bytes => class <= other

\* cap([]rune(s)) for a text of n code points, and what lies between its
\* length and its capacity.
RuneCap(n) ==
    IF stackBuffer /\ n <= 32 THEN 32 ELSE RoundUpSize(4 * n) \div 4
RuneSpare(n) == RuneCap(n) - n

\* The slice with the zero code points behind its length, up to its capacity.
WithZeroTail(runes, spare) == runes \o [k \in 1..spare |-> Nul]

(***************************************************************************)
(* parseIdentifierSequence: a dot-separated identifier sequence at the     *)
(* start of s. Returns the parts, the number of code points consumed and   *)
(* an error.                                                               *)
(***************************************************************************)
RECURSIVE SkipSpace(_, _)
SkipSpace(runes, n) ==
    IF n < Len(runes) /\ IsSpace(At(runes, n)) THEN SkipSpace(runes, n + 1) ELSE n

IsIdentRune(c) == IsLetter(c) \/ IsNumber(c) \/ c = "_" \/ c = "-"

RECURSIVE IdentEnd(_, _)
IdentEnd(runes, end) ==
    IF end < Len(runes) /\ IsIdentRune(At(runes, end))
    THEN IdentEnd(runes, end + 1) ELSE end

\* One identifier of the sequence at r[totalConsumed] (lines 432-455): its
\* text, the code points it takes, and whether there was one at all. spare
\* is cap(runes) - len(runes). The end of a backtick identifier is a byte
\* offset: behind the length of the slice the part takes in zero code
\* points, behind its capacity the slice expression panics.
IdentToken(runes, totalConsumed, spare) ==
    IF At(runes, totalConsumed) = Backtick
    THEN LET end == IndexFrom(runes, totalConsumed + 1, <<Backtick>>)
         IN  IF end = -1
             THEN [some |-> FALSE, part |-> <<>>, consumed |-> 0,
                   err |-> ErrUnclosedBacktick]
             ELSE IF totalConsumed + end + 1 > Len(runes) + spare
             THEN [some |-> FALSE, part |-> <<>>, consumed |-> 0, err |-> ErrPanic]
             ELSE [some |-> TRUE,
                   part |-> Slice(WithZeroTail(runes, spare), totalConsumed + 1,
                                  totalConsumed + end + 1),
                   consumed |-> end + 2, err |-> NoErr]
    ELSE IF IsLetter(At(runes, totalConsumed)) \/ At(runes, totalConsumed) = "_"
    THEN LET end == IdentEnd(runes, totalConsumed)
         IN  [some |-> TRUE, part |-> Slice(runes, totalConsumed, end),
              consumed |-> end - totalConsumed, err |-> NoErr]
    ELSE [some |-> FALSE, part |-> <<>>, consumed |-> 0, err |-> NoErr]

RECURSIVE IdentLoop(_, _, _)

\* What one round of the scanner's loop ends in: another round from
\* r[consumed], or a return (`break` returns the parts read so far).
IdentContinue(parts, totalConsumed) ==
    [done |-> FALSE, parts |-> parts, consumed |-> totalConsumed, err |-> NoErr]
IdentReturn(parts, totalConsumed, err) ==
    [done |-> TRUE, parts |-> parts, consumed |-> totalConsumed, err |-> err]

\* Lines 457-463: behind a part, a dot leads to another round.
IdentAfterPart(runes, parts, totalConsumed) ==
    IF totalConsumed >= Len(runes) \/ At(runes, totalConsumed) # "."
    THEN IdentReturn(parts, totalConsumed, NoErr)
    ELSE IdentContinue(parts, totalConsumed + 1)

\* Lines 432-458, on the identifier token read at r[totalConsumed].
IdentAfterToken(runes, parts, totalConsumed, token) ==
    IF token.err # NoErr THEN IdentReturn(<<>>, 0, token.err)
    ELSE IF ~token.some THEN IdentReturn(parts, totalConsumed, NoErr)
    ELSE IdentAfterPart(runes, parts \o Split(token.part),
                        totalConsumed + token.consumed)

\* Lines 430-432: the end of the text ends the loop. runes is the slice of
\* line 425, converted from the argument.
IdentAt(runes, parts, totalConsumed) ==
    IF totalConsumed >= Len(runes) THEN IdentReturn(parts, totalConsumed, NoErr)
    ELSE IdentAfterToken(runes, parts, totalConsumed,
                         IdentToken(runes, totalConsumed, RuneSpare(Len(runes))))

\* Lines 426-464: one round of the loop from r[totalConsumed0].
IdentRound(runes, totalConsumed0, parts) ==
    IdentAt(runes, parts, SkipSpace(runes, totalConsumed0))

\* What the scanner returns when a round returns.
IdentResult(round) ==
    [parts |-> round.parts, consumed |-> round.consumed, err |-> round.err]

\* The loop: rounds until one returns.
IdentNext(runes, round) ==
    IF round.done THEN IdentResult(round)
    ELSE IdentLoop(runes, round.consumed, round.parts)

IdentLoop(runes, totalConsumed0, parts) ==
    IdentNext(runes, IdentRound(runes, totalConsumed0, parts))

parseIdentifierSequence(s) == IdentLoop(s, 0, <<>>)

\* A formatTableID that does not ask for a project: C16 fails of it.
formatTableIDWithoutProject(parts, defaultProjectID) ==
    IF Len(parts) < 2 \/ Len(parts) > 3
    THEN [id |-> <<>>, err |-> NoErr]
    ELSE IF Len(parts) = 3
    THEN [id |-> Join(parts), err |-> NoErr]
    ELSE [id |-> defaultProjectID \o <<".">> \o Join(parts), err |-> NoErr]

(***************************************************************************)
(* formatTableID: the table ID of a 2- or 3-part identifier; the empty     *)
(* string for any other number of parts.                                   *)
(***************************************************************************)
formatTableID(parts, defaultProjectID) ==
    IF Len(parts) < 2 \/ Len(parts) > 3
    THEN [id |-> <<>>, err |-> NoErr]
    ELSE IF Len(parts) = 3
    THEN [id |-> Join(parts), err |-> NoErr]
    ELSE IF defaultProjectID = <<>>
    THEN [id |-> <<>>, err |-> ErrMissingProject]
    ELSE [id |-> defaultProjectID \o <<".">> \o Join(parts), err |-> NoErr]

(***************************************************************************)
(* parseSQL: the state machine of the table extractor. A scan holds its    *)
(* locals in a record c; the three maps shared by every scan of one        *)
(* TableParser call (tableIDSet, visitedSQLs, aliases) travel in it too.   *)
(***************************************************************************)
\* A return of 0 and the error e. The maps are references: they stay as the
\* scan with the locals c has written them (line 113 and on), no return
\* undoes a write.
ParseFail(e, c) ==
    [consumed |-> 0, err |-> e, tableIDSet |-> c.tableIDSet,
     visitedSQLs |-> c.visitedSQLs, aliases |-> c.aliases]

ParseReturn(n, c) ==
    [consumed |-> n, err |-> NoErr, tableIDSet |-> c.tableIDSet,
     visitedSQLs |-> c.visitedSQLs, aliases |-> c.aliases]

\* A gate that lets SCHEMA and DATASET pass: C23 fails of it.
SecurityGateAllowingDatasets(parts, keyword, lastToken, statementVerb) ==
    LET verb == IF keyword \in StatementVerbs /\ statementVerb = <<>>
                THEN keyword ELSE statementVerb
    IN  IF Len(parts) # 1 THEN [err |-> NoErr, statementVerb |-> statementVerb]
        ELSE IF keyword = kwCall THEN [err |-> ErrCall, statementVerb |-> statementVerb]
        ELSE IF keyword = kwImmediate /\ lastToken = kwExecute
        THEN [err |-> ErrExecuteImmediate, statementVerb |-> statementVerb]
        ELSE IF /\ keyword \in {kwProcedure, kwFunction}
                /\ lastToken \in {verbCreate, kwCreateOrReplace}
        THEN [err |-> ErrUnanalyzable, statementVerb |-> statementVerb]
        ELSE [err |-> NoErr, statementVerb |-> verb]

\* Lines 236-258: the security-restricted keywords and the statement verb.
\* Yields the error to return, or the statement verb to go on with.
SecurityGate(parts, keyword, lastToken, statementVerb) ==
    LET verb == IF keyword \in StatementVerbs /\ statementVerb = <<>>
                THEN keyword ELSE statementVerb
    IN  IF Len(parts) # 1 THEN [err |-> NoErr, statementVerb |-> statementVerb]
        ELSE IF keyword = kwCall THEN [err |-> ErrCall, statementVerb |-> statementVerb]
        ELSE IF keyword = kwImmediate /\ lastToken = kwExecute
        THEN [err |-> ErrExecuteImmediate, statementVerb |-> statementVerb]
        ELSE IF /\ keyword \in {kwProcedure, kwFunction}
                /\ lastToken \in {verbCreate, kwCreateOrReplace}
        THEN [err |-> ErrUnanalyzable, statementVerb |-> statementVerb]
        ELSE IF /\ verb \in {verbCreate, verbAlter, verbDrop}
                /\ keyword \in {kwSchema, kwDataset}
        THEN [err |-> ErrDatasetLevel, statementVerb |-> verb]
        ELSE [err |-> NoErr, statementVerb |-> verb]

\* Line 277: a single-part structural keyword is not taken for an alias.
IsStructuralKeyword(parts, keyword) ==
    /\ Len(parts) = 1
    /\ \/ keyword \in tableContextExitKeywords
       \/ keyword \in tableFollowsKeywords
       \/ keyword = verbSelect
       \/ keyword = kwWith

\* Lines 330-339: the lastToken chain.
NextLastToken(parts, keyword, lastToken) ==
    IF Len(parts) # 1 THEN <<>>
    ELSE IF lastToken = verbCreate /\ keyword = kwOr THEN kwCreateOr
    ELSE IF lastToken = kwCreateOr /\ keyword = kwReplace THEN kwCreateOrReplace
    ELSE keyword

\* Lines 232-341: one identifier sequence read in Normal state. Yields the
\* error to return, or the locals and maps after it.
IdentifierStep(c, parts, consumed, defaultProjectID) ==
    LET keyword == ToLower(parts[1])
        fullID == ToLower(Join(parts))
        gate == SecurityGate(parts, keyword, c.lastToken, c.statementVerb)
        known0 == \/ fullID \in c.aliases
                  \/ Len(parts) > 1 /\ keyword \in c.aliases
        registers == \/ c.expectingCTE
                     \/ c.expectingAlias /\ ~IsStructuralKeyword(parts, keyword)
        aliases1 == IF registers THEN c.aliases \cup {fullID, keyword} ELSE c.aliases
        expectingCTE1 == FALSE
        expectingAlias1 == IF c.expectingCTE THEN c.expectingAlias ELSE FALSE
        isKnownAlias == \/ known0
                        \/ ~c.expectingCTE /\ registers
                        \/ fullID \in aliases1
        emits == c.expectingTable /\ ~isKnownAlias
        formatted == formatTableID(parts, defaultProjectID)
        tableIDSet1 == IF emits /\ Len(parts) >= 2 /\ formatted.id # <<>>
                       THEN c.tableIDSet \cup {formatted.id} ELSE c.tableIDSet
        expectingTable2 == IF emits /\ c.lastTableKeyword # kwFrom
                           THEN FALSE ELSE c.expectingTable
        expectingAlias2 == IF emits THEN TRUE ELSE expectingAlias1
        single == Len(parts) = 1
        isWith == single /\ keyword = kwWith
        isAs == single /\ keyword = kwAs
        isFollows == single /\ keyword \in tableFollowsKeywords
        isExit == single /\ keyword \in tableContextExitKeywords
    IN  IF gate.err # NoErr THEN [err |-> gate.err, c |-> c]
        ELSE IF emits /\ Len(parts) >= 2 /\ formatted.err # NoErr
        THEN [err |-> formatted.err, c |-> c]
        ELSE [err |-> NoErr,
              c |-> [c EXCEPT
                !.i = c.i + consumed,
                !.aliases = aliases1,
                !.tableIDSet = tableIDSet1,
                !.statementVerb = IF isWith THEN kwWith ELSE gate.statementVerb,
                !.expectingCTE = IF isWith THEN TRUE ELSE expectingCTE1,
                !.expectingAlias =
                    IF isWith THEN expectingAlias2
                    ELSE IF isAs
                    THEN (IF gate.statementVerb # kwWith THEN TRUE ELSE expectingAlias2)
                    ELSE IF isFollows \/ isExit THEN FALSE
                    ELSE expectingAlias2,
                !.expectingTable =
                    IF isWith THEN expectingTable2
                    ELSE IF isAs THEN FALSE
                    ELSE IF isFollows THEN TRUE
                    ELSE IF isExit THEN FALSE
                    ELSE expectingTable2,
                !.lastTableKeyword =
                    IF isWith \/ isAs THEN c.lastTableKeyword
                    ELSE IF isFollows THEN keyword
                    ELSE IF isExit THEN <<>>
                    ELSE c.lastTableKeyword,
                !.lastToken = NextLastToken(parts, keyword, c.lastToken)]]

\* The string literal opened at r[i] in Normal state, in the order the code
\* tests the forms (lines 181-221): the state entered and the code points
\* of the opening sequence; "Normal" if no literal opens here.
StringOpening(runes, i) ==
    LET remLow == ToLower(Slice(runes, i, IF i + 4 <= Len(runes) THEN i + 4 ELSE Len(runes)))
        remaining == From(runes, i)
    IN  IF HasPrefix(remLow, <<"r","'","'","'">>)
        THEN [state |-> stateInRawTripleSingleQuoteString, n |-> 4]
        ELSE IF HasPrefix(remLow, <<"r","\"","\"","\"">>)
        THEN [state |-> stateInRawTripleDoubleQuoteString, n |-> 4]
        ELSE IF HasPrefix(remLow, <<"r","'">>)
        THEN [state |-> stateInRawSingleQuoteString, n |-> 2]
        ELSE IF HasPrefix(remLow, <<"r","\"">>)
        THEN [state |-> stateInRawDoubleQuoteString, n |-> 2]
        ELSE IF HasPrefix(remaining, <<"'","'","'">>)
        THEN [state |-> stateInTripleSingleQuoteString, n |-> 3]
        ELSE IF HasPrefix(remaining, <<"\"","\"","\"">>)
        THEN [state |-> stateInTripleDoubleQuoteString, n |-> 3]
        ELSE IF At(runes, i) = "'"
        THEN [state |-> stateInSingleQuoteString, n |-> 1]
        ELSE IF At(runes, i) = "\""
        THEN [state |-> stateInDoubleQuoteString, n |-> 1]
        ELSE [state |-> stateNormal, n |-> 0]

\* The comment opened at r[i] in Normal state (lines 126-140).
CommentOpening(runes, i) ==
    IF HasPrefixAt(runes, i, <<"-","-">>)
    THEN [state |-> stateInSingleLineCommentDash, n |-> 2]
    ELSE IF HasPrefixAt(runes, i, <<"#">>)
    THEN [state |-> stateInSingleLineCommentHash, n |-> 1]
    ELSE IF HasPrefixAt(runes, i, <<"/","*">>)
    THEN [state |-> stateInMultiLineComment, n |-> 2]
    ELSE [state |-> stateNormal, n |-> 0]

\* Lines 344-411 (and 575-633 of the auditor): one step inside a string or a
\* comment: the state after it and the number of code points it advances.
Closes(state, runes, i, quote) ==
    IF HasPrefixAt(runes, i, quote)
    THEN [state |-> stateNormal, n |-> Len(quote)]
    ELSE [state |-> state, n |-> 1]

InsideStep(state, runes, i) ==
    IF state \in {stateInSingleQuoteString, stateInDoubleQuoteString}
    THEN IF At(runes, i) = "\\" THEN [state |-> state, n |-> 2]
         ELSE IF state = stateInSingleQuoteString THEN Closes(state, runes, i, <<"'">>)
         ELSE Closes(state, runes, i, <<"\"">>)
    ELSE IF state \in {stateInTripleSingleQuoteString,
                       stateInRawTripleSingleQuoteString}
    THEN Closes(state, runes, i, <<"'","'","'">>)
    ELSE IF state \in {stateInTripleDoubleQuoteString,
                       stateInRawTripleDoubleQuoteString}
    THEN Closes(state, runes, i, <<"\"","\"","\"">>)
    ELSE IF state \in {stateInSingleLineCommentDash, stateInSingleLineCommentHash}
    THEN Closes(state, runes, i, <<"\n">>)
    ELSE IF state = stateInMultiLineComment THEN Closes(state, runes, i, <<"*","/">>)
    ELSE IF state = stateInRawSingleQuoteString THEN Closes(state, runes, i, <<"'">>)
    ELSE Closes(state, runes, i, <<"\"">>)

\* The locals of a scan as parseSQL initialises them (lines 115-118).
NewScan(tableIDSet, visitedSQLs, aliases) ==
    [i |-> 0, state |-> stateNormal,
     expectingTable |-> FALSE, expectingAlias |-> FALSE, expectingCTE |-> FALSE,
     lastTableKeyword |-> <<>>, lastToken |-> <<>>, statementVerb |-> <<>>,
     tableIDSet |-> tableIDSet, visitedSQLs |-> visitedSQLs, aliases |-> aliases]

RECURSIVE parseSQL(_, _, _, _, _, _)
RECURSIVE ScanStep(_, _, _, _)
RECURSIVE ScanLoop(_, _, _, _)

\* What one iteration of the scan loop ends in: `continue` with the locals c,
\* or a return of the result.
Continue(c) == [done |-> FALSE, result |-> ParseFail(NoErr, c), c |-> c]
Return(result, c) == [done |-> TRUE, result |-> result, c |-> c]

\* An Enter that leaves the cursor where it is: C12 fails of it.
EnterWithoutAdvance(c, to) == [c EXCEPT !.state = to.state]

\* The state entered and the cursor moved by n code points.
Enter(c, to) == [c EXCEPT !.state = to.state, !.i = c.i + to.n]

\* Lines 141-151: a comma.
AfterComma(c) ==
    [c EXCEPT
       !.i = c.i + 1,
       !.expectingTable =
           IF c.lastTableKeyword = kwFrom THEN TRUE ELSE c.expectingTable,
       !.expectingCTE =
           IF c.lastTableKeyword # kwFrom /\ c.statementVerb = kwWith
           THEN TRUE ELSE c.expectingCTE,
       !.expectingAlias =
           IF c.lastTableKeyword = kwFrom \/ c.statementVerb = kwWith
           THEN FALSE ELSE c.expectingAlias]

\* Lines 154-165: after the nested parse sub of a subquery.
AfterSubquery(c, sub) ==
    IF sub.err # NoErr THEN Return(ParseFail(sub.err, sub), c)
    ELSE Continue([c EXCEPT
                     !.i = c.i + sub.consumed + 1,
                     !.tableIDSet = sub.tableIDSet,
                     !.visitedSQLs = sub.visitedSQLs,
                     !.aliases = sub.aliases,
                     !.expectingTable =
                         IF c.lastTableKeyword # kwFrom
                         THEN FALSE ELSE c.expectingTable,
                     !.expectingAlias = TRUE,
                     !.expectingCTE = FALSE])

\* A semicolon that also empties the alias set: C26 fails of it.
AfterSemicolonWithoutAliases(c) ==
    [c EXCEPT !.i = c.i + 1, !.statementVerb = <<>>, !.lastToken = <<>>,
              !.expectingTable = FALSE, !.expectingAlias = FALSE,
              !.expectingCTE = FALSE, !.aliases = {}]

\* Lines 172-180: a semicolon.
AfterSemicolon(c) ==
    [c EXCEPT !.i = c.i + 1, !.statementVerb = <<>>, !.lastToken = <<>>,
              !.expectingTable = FALSE, !.expectingAlias = FALSE,
              !.expectingCTE = FALSE]

\* Lines 232-341, on the outcome step of IdentifierStep.
AfterIdentifierStep(c, step) ==
    IF step.err # NoErr THEN Return(ParseFail(step.err, c), c) ELSE Continue(step.c)

\* Lines 224-231, on the result ident of parseIdentifierSequence.
AfterIdentifier(c, ident, defaultProjectID) ==
    IF ident.err # NoErr THEN Return(ParseFail(ident.err, c), c)
    ELSE IF ident.consumed = 0 THEN Continue([c EXCEPT !.i = c.i + 1])
    ELSE AfterIdentifierStep(c, IdentifierStep(c, ident.parts, ident.consumed,
                                               defaultProjectID))

\* An iteration that takes the end of the input for the end of a subquery:
\* C28 fails of it.
ScanStepClosingAtEnd(runes, defaultProjectID, inSubquery, c) ==
    IF c.i >= Len(runes)
    THEN Return(ParseReturn(Len(runes), c), c)
    ELSE IF c.state # stateNormal
    THEN Continue(Enter(c, InsideStep(c.state, runes, c.i)))
    ELSE IF CommentOpening(runes, c.i).n > 0
    THEN Continue(Enter(c, CommentOpening(runes, c.i)))
    ELSE IF At(runes, c.i) = "," THEN Continue(AfterComma(c))
    ELSE IF /\ At(runes, c.i) = "("
            /\ (c.expectingTable \/ c.expectingCTE \/ c.lastToken = kwAs)
    THEN AfterSubquery(c, parseSQL(From(runes, c.i + 1), defaultProjectID,
                                   c.tableIDSet, c.visitedSQLs, c.aliases, TRUE))
    ELSE IF At(runes, c.i) = ")" /\ inSubquery
    THEN Return(ParseReturn(c.i + 1, c), c)
    ELSE IF At(runes, c.i) = ";" THEN Continue(AfterSemicolon(c))
    ELSE IF StringOpening(runes, c.i).n > 0
    THEN Continue(Enter(c, StringOpening(runes, c.i)))
    ELSE IF IsLetter(At(runes, c.i)) \/ At(runes, c.i) = Backtick \/ At(runes, c.i) = "_"
    THEN AfterIdentifier(c, parseIdentifierSequence(From(runes, c.i)),
                         defaultProjectID)
    ELSE Continue([c EXCEPT !.i = c.i + 1])

\* Lines 120-417: one iteration of the scan loop on the locals c.
ScanStep(runes, defaultProjectID, inSubquery, c) ==
    IF c.i >= Len(runes)
    THEN Return(IF inSubquery THEN ParseFail(ErrUnclosedSubquery, c)
                ELSE ParseReturn(Len(runes), c), c)
    ELSE IF c.state # stateNormal
    THEN Continue(Enter(c, InsideStep(c.state, runes, c.i)))
    ELSE IF CommentOpening(runes, c.i).n > 0
    THEN Continue(Enter(c, CommentOpening(runes, c.i)))
    ELSE IF At(runes, c.i) = "," THEN Continue(AfterComma(c))
    ELSE IF /\ At(runes, c.i) = "("
            /\ (c.expectingTable \/ c.expectingCTE \/ c.lastToken = kwAs)
    THEN AfterSubquery(c, parseSQL(From(runes, c.i + 1), defaultProjectID,
                                   c.tableIDSet, c.visitedSQLs, c.aliases, TRUE))
    ELSE IF At(runes, c.i) = ")" /\ inSubquery
    THEN Return(ParseReturn(c.i + 1, c), c)
    ELSE IF At(runes, c.i) = ";" THEN Continue(AfterSemicolon(c))
    ELSE IF StringOpening(runes, c.i).n > 0
    THEN Continue(Enter(c, StringOpening(runes, c.i)))
    ELSE IF IsLetter(At(runes, c.i)) \/ At(runes, c.i) = Backtick \/ At(runes, c.i) = "_"
    THEN AfterIdentifier(c, parseIdentifierSequence(From(runes, c.i)),
                         defaultProjectID)
    ELSE Continue([c EXCEPT !.i = c.i + 1])

\* The loop: iterations until one returns.
ScanNext(runes, defaultProjectID, inSubquery, step) ==
    IF step.done THEN step.result
    ELSE ScanLoop(runes, defaultProjectID, inSubquery, step.c)

ScanLoop(runes, defaultProjectID, inSubquery, c) ==
    ScanNext(runes, defaultProjectID, inSubquery,
             ScanStep(runes, defaultProjectID, inSubquery, c))

\* Lines 108-118: the visited check, then the scan.
parseSQL(sql, defaultProjectID, tableIDSet, visitedSQLs, aliases, inSubquery) ==
    IF sql \in visitedSQLs
    THEN [consumed |-> ByteLen(sql), err |-> NoErr, tableIDSet |-> tableIDSet,
          visitedSQLs |-> visitedSQLs, aliases |-> aliases]
    ELSE ScanLoop(sql, defaultProjectID, inSubquery,
                  NewScan(tableIDSet, visitedSQLs \cup {sql}, aliases))

\* A filter that compares the whole ID only: C11 fails of it.
HasAliasExact(id, aliases) == ToLower(id) \in aliases

\* Lines 91-98: some dot-suffix of the ID, lowercased, is a registered alias.
HasAliasSuffix(id, aliases) ==
    LET parts == Split(id)
    IN  \E j \in 0..(Len(parts) - 1) : ToLower(Join(PartsFrom(parts, j))) \in aliases

\* Lines 84-103: the error of the scan, or the collected IDs without those a
\* registered alias is a dot-suffix of.
FilterAliases(r) ==
    IF r.err # NoErr THEN [tableIDs |-> {}, err |-> r.err, aliases |-> {}]
    ELSE [tableIDs |-> {id \in r.tableIDSet : ~HasAliasSuffix(id, r.aliases)},
          err |-> NoErr, aliases |-> r.aliases]

\* TableParser: the table IDs of a SQL text, as a set (the code returns them
\* in map iteration order), or the error of the scan.
TableParser(sql, defaultProjectID) ==
    FilterAliases(parseSQL(sql, defaultProjectID, {}, {}, {}, FALSE))

(***************************************************************************)
(* IsAnyTableExplicitlyReferenced: the explicit-reference auditor.         *)
(***************************************************************************)
\* Lines 513-526: the identifier matches some target, as written or with the
\* default project put before it.
MatchesTarget(fullID, defaultProjectID, targets) ==
    \E target \in targets :
        \/ fullID = target
        \/ HasPrefix(fullID, target \o <<".">>)
        \/ /\ defaultProjectID # <<>>
           /\ LET withDefault == ToLower(defaultProjectID \o <<".">> \o fullID)
              IN  \/ withDefault = target
                  \/ HasPrefix(withDefault, target \o <<".">>)

RECURSIVE AuditLoop(_, _, _, _, _)

\* What one iteration of the auditor's loop ends in: `continue` in a state at
\* a position, or a return.
AuditContinue(state, i) ==
    [done |-> FALSE, result |-> [found |-> FALSE, err |-> NoErr],
     state |-> state, i |-> i]
AuditReturn(found, err, state, i) ==
    [done |-> TRUE, result |-> [found |-> found, err |-> err],
     state |-> state, i |-> i]

\* Lines 503-529, on the result ident of parseIdentifierSequence; the strings
\* of lines 531-572 are tried when the sequence is empty.
AuditIdentifier(runes, defaultProjectID, targets, i, ident) ==
    IF ident.err # NoErr THEN AuditReturn(FALSE, ident.err, stateNormal, i)
    ELSE IF ident.consumed > 0
    THEN IF /\ Len(ident.parts) >= 2
            /\ MatchesTarget(ToLower(Join(ident.parts)), defaultProjectID, targets)
         THEN AuditReturn(TRUE, NoErr, stateNormal, i)
         ELSE AuditContinue(stateNormal, i + ident.consumed)
    ELSE IF StringOpening(runes, i).n > 0
    THEN AuditContinue(StringOpening(runes, i).state, i + StringOpening(runes, i).n)
    ELSE AuditContinue(stateNormal, i + 1)

\* Lines 481-636: one iteration of the loop at position i in state.
AuditStep(runes, defaultProjectID, targets, state, i) ==
    IF i >= Len(runes) THEN AuditReturn(FALSE, NoErr, state, i)
    ELSE IF state # stateNormal
    THEN AuditContinue(InsideStep(state, runes, i).state,
                       i + InsideStep(state, runes, i).n)
    ELSE IF CommentOpening(runes, i).n > 0
    THEN AuditContinue(CommentOpening(runes, i).state, i + CommentOpening(runes, i).n)
    ELSE IF IsLetter(At(runes, i)) \/ At(runes, i) = Backtick \/ At(runes, i) = "_"
    THEN AuditIdentifier(runes, defaultProjectID, targets, i,
                         parseIdentifierSequence(From(runes, i)))
    ELSE IF StringOpening(runes, i).n > 0
    THEN AuditContinue(StringOpening(runes, i).state, i + StringOpening(runes, i).n)
    ELSE AuditContinue(stateNormal, i + 1)

\* The loop: iterations until one returns.
AuditNext(runes, defaultProjectID, targets, step) ==
    IF step.done THEN step.result
    ELSE AuditLoop(runes, defaultProjectID, targets, step.state, step.i)

\* Lines 481-637: the scan loop of the auditor from position i in state.
AuditLoop(runes, defaultProjectID, targets, state, i) ==
    AuditNext(runes, defaultProjectID, targets,
              AuditStep(runes, defaultProjectID, targets, state, i))

IsAnyTableExplicitlyReferenced(sql, defaultProjectID, targetTableIDs) ==
    IF targetTableIDs = {} THEN [found |-> FALSE, err |-> NoErr]
    ELSE AuditLoop(sql, defaultProjectID,
                   {ToLower(id) : id \in targetTableIDs}, stateNormal, 0)

(***************************************************************************)
(* The second variant of the scanner (src/unnamed/part_000): its           *)
(* parseIdentifierSequence skips whitespace and comments around the parts, *)
(* and its auditor also compares with the backticks taken out.             *)
(***************************************************************************)
\* Lines 697-709: a comment at r[a] is skipped when it is closed (a line
\* comment also when it is not); the position after it.
SkipCommentPart000(runes, a) ==
    IF HasPrefixAt(runes, a, <<"/","*">>)
    THEN IF IndexFrom(runes, a, <<"*","/">>) # -1
         THEN a + IndexFrom(runes, a, <<"*","/">>) + 2 ELSE a
    ELSE IF \/ HasPrefixAt(runes, a, <<"-","-">>)
            \/ (a < Len(runes) /\ At(runes, a) = "#")
    THEN IF IndexFrom(runes, a, <<"\n">>) # -1
         THEN a + IndexFrom(runes, a, <<"\n">>) + 1 ELSE Len(runes)
    ELSE a

RECURSIVE SkipBlankPart000(_, _)

\* Lines 710-712: the loop goes on until a round moves nothing.
SkipBlankAgainPart000(runes, originalConsumed, totalConsumed) ==
    IF totalConsumed = originalConsumed THEN totalConsumed
    ELSE SkipBlankPart000(runes, totalConsumed)

\* Lines 692-713 (and 743-764): whitespace and comments from r[totalConsumed].
SkipBlankPart000(runes, totalConsumed) ==
    SkipBlankAgainPart000(runes, totalConsumed,
        SkipCommentPart000(runes, SkipSpace(runes, totalConsumed)))

RECURSIVE IdentLoopPart000(_, _, _, _)

\* Lines 739-770: after a part, at the position afterBlank behind the
\* whitespace and comments that follow it.
IdentAfterPartPart000(runes, parts, afterBlank) ==
    IF afterBlank >= Len(runes) \/ At(runes, afterBlank) # "."
    THEN IdentReturn(parts, afterBlank, NoErr)
    ELSE IdentContinue(parts, afterBlank + 1)

\* Lines 714-741: the part at r[totalConsumed], if there is one.
IdentPartPart000(runes, totalConsumed, parts, token) ==
    IF token.err # NoErr THEN IdentReturn(<<>>, 0, token.err)
    ELSE IF ~token.some THEN IdentReturn(parts, totalConsumed, NoErr)
    ELSE IdentAfterPartPart000(runes, parts \o Split(token.part),
             SkipBlankPart000(runes, totalConsumed + token.consumed))

\* Lines 714-716. runes is the slice the caller passes, spare its capacity
\* less its length.
IdentReadPart000(runes, totalConsumed, parts, spare) ==
    IF totalConsumed >= Len(runes) THEN IdentReturn(parts, totalConsumed, NoErr)
    ELSE IdentPartPart000(runes, totalConsumed, parts,
                          IdentToken(runes, totalConsumed, spare))

\* Lines 690-771: one round of the loop from r[totalConsumed0].
IdentRoundPart000(runes, totalConsumed0, parts, spare) ==
    IdentReadPart000(runes, SkipBlankPart000(runes, totalConsumed0), parts, spare)

\* The loop: rounds until one returns.
IdentNextPart000(runes, round, spare) ==
    IF round.done THEN IdentResult(round)
    ELSE IdentLoopPart000(runes, round.consumed, round.parts, spare)

IdentLoopPart000(runes, totalConsumed0, parts, spare) ==
    IdentNextPart000(runes, IdentRoundPart000(runes, totalConsumed0, parts, spare), spare)

\* Lines 687-773. The argument is a slice of the caller's conversion, which
\* reaches to the end of the converted text: it has the spare capacity of
\* that conversion.
parseIdentifierSequencePart000(runes, spare) == IdentLoopPart000(runes, 0, <<>>, spare)

\* strings.ReplaceAll(s, "`", "")
WithoutBackticks(s) == SelectSeq(s, LAMBDA c : c # Backtick)

\* s == target || strings.HasPrefix(s, target+".")
IsOrQualifies(s, target) == s = target \/ HasPrefix(s, target \o <<".">>)

\* Lines 553-572: the identifier matches some target: as written, with the
\* backticks taken out, or with the default project put before it.
MatchesTargetPart000(fullID, defaultProjectID, targets) ==
    \E target \in targets :
        \/ IsOrQualifies(fullID, target)
        \/ IsOrQualifies(WithoutBackticks(fullID), WithoutBackticks(target))
        \/ /\ defaultProjectID # <<>>
           /\ IsOrQualifies(WithoutBackticks(ToLower(defaultProjectID)) \o <<".">>
                                \o WithoutBackticks(fullID),
                            WithoutBackticks(target))

RECURSIVE AuditLoopPart000(_, _, _, _, _)

\* Lines 546-618, on the result ident of parseIdentifierSequence.
AuditIdentifierPart000(runes, defaultProjectID, targets, i, ident) ==
    IF ident.err # NoErr THEN AuditReturn(FALSE, ident.err, stateNormal, i)
    ELSE IF ident.consumed > 0
    THEN IF MatchesTargetPart000(ToLower(Join(ident.parts)), defaultProjectID, targets)
         THEN AuditReturn(TRUE, NoErr, stateNormal, i)
         ELSE AuditContinue(stateNormal, i + ident.consumed)
    ELSE IF StringOpening(runes, i).n > 0
    THEN AuditContinue(StringOpening(runes, i).state, i + StringOpening(runes, i).n)
    ELSE AuditContinue(stateNormal, i + 1)

\* Lines 525-680: one iteration of the loop at position i in state.
AuditStepPart000(runes, defaultProjectID, targets, state, i) ==
    IF i >= Len(runes) THEN AuditReturn(FALSE, NoErr, state, i)
    ELSE IF state # stateNormal
    THEN AuditContinue(InsideStep(state, runes, i).state,
                       i + InsideStep(state, runes, i).n)
    ELSE IF CommentOpening(runes, i).n > 0
    THEN AuditContinue(CommentOpening(runes, i).state, i + CommentOpening(runes, i).n)
    ELSE IF IsLetter(At(runes, i)) \/ At(runes, i) = Backtick \/ At(runes, i) = "_"
    THEN AuditIdentifierPart000(runes, defaultProjectID, targets, i,
                                parseIdentifierSequencePart000(
                                    From(runes, i), RuneSpare(Len(runes))))
    ELSE IF StringOpening(runes, i).n > 0
    THEN AuditContinue(StringOpening(runes, i).state, i + StringOpening(runes, i).n)
    ELSE AuditContinue(stateNormal, i + 1)

AuditNextPart000(runes, defaultProjectID, targets, step) ==
    IF step.done THEN step.result
    ELSE AuditLoopPart000(runes, defaultProjectID, targets, step.state, step.i)

AuditLoopPart000(runes, defaultProjectID, targets, state, i) ==
    AuditNextPart000(runes, defaultProjectID, targets,
                     AuditStepPart000(runes, defaultProjectID, targets, state, i))

\* Lines 516-683.
IsAnyTableExplicitlyReferencedPart000(sql, defaultProjectID, targetTableIDs) ==
    AuditLoopPart000(sql, defaultProjectID,
                     {ToLower(id) : id \in targetTableIDs}, stateNormal, 0)

(***************************************************************************)
(* The second variant of the table extractor (src/unnamed/part_000). Its   *)
(* parseSQL tests the restricted keywords on the first part of every       *)
(* identifier sequence, adopts the statement verb after the alias and      *)
(* table decision (also over "with"), knows three more context-exit        *)
(* keywords and reads identifiers with the second scanner. The branch of   *)
(* lines 278-288 repeats the test that returns at line 259 and is never    *)
(* entered.                                                                *)
(***************************************************************************)
kwUnion == <<"u","n","i","o","n">>
kwIntersect == <<"i","n","t","e","r","s","e","c","t">>
kwExcept == <<"e","x","c","e","p","t">>
kwExecuteImmediate == <<"e","x","e","c","u","t","e"," ","i","m","m","e","d","i","a","t","e">>
kwTableFunction == <<"t","a","b","l","e"," ","f","u","n","c","t","i","o","n">>

\* Lines 51-64.
tableContextExitKeywordsPart000 ==
    tableContextExitKeywords \cup {kwUnion, kwIntersect, kwExcept}

\* A gate that never refuses CALL: C21 fails of it.
SecurityGateWithoutCallPart000(keyword, lastToken, statementVerb) ==
    IF keyword = kwImmediate /\ lastToken = kwExecute THEN ErrExecuteImmediate
    ELSE IF /\ lastToken \in {verbCreate, kwCreateOr, kwCreateOrReplace}
            /\ keyword \in {kwProcedure, kwFunction, kwTableFunction}
    THEN ErrUnanalyzable
    ELSE IF /\ statementVerb \in {verbCreate, verbAlter, verbDrop}
            /\ keyword \in {kwSchema, kwDataset}
    THEN ErrDatasetLevel
    ELSE NoErr

\* A test that never sees EXECUTE IMMEDIATE: C39 fails of it.
ExecuteImmediateGateOpenPart000(keyword, lastToken) == FALSE

\* Line 259: the keyword immediate behind the token execute.
ExecuteImmediateGatePart000(keyword, lastToken) ==
    keyword = kwImmediate /\ lastToken = kwExecute

\* Lines 259-276: the error of a restricted keyword, or none.
SecurityGatePart000(keyword, lastToken, statementVerb) ==
    IF ExecuteImmediateGatePart000(keyword, lastToken) THEN ErrExecuteImmediate
    ELSE IF /\ lastToken \in {verbCreate, kwCreateOr, kwCreateOrReplace}
            /\ keyword \in {kwProcedure, kwFunction, kwTableFunction}
    THEN ErrUnanalyzable
    ELSE IF keyword = kwCall THEN ErrCall
    ELSE IF /\ statementVerb \in {verbCreate, verbAlter, verbDrop}
            /\ keyword \in {kwSchema, kwDataset}
    THEN ErrDatasetLevel
    ELSE NoErr

\* Line 306.
IsStructuralKeywordPart000(parts, keyword) ==
    /\ Len(parts) = 1
    /\ \/ keyword \in tableContextExitKeywordsPart000
       \/ keyword \in tableFollowsKeywords
       \/ keyword = verbSelect
       \/ keyword = kwWith

\* Lines 255-376: one identifier sequence read in Normal state. Yields the
\* error to return, or the locals and maps after it.
IdentifierStepPart000(c, parts, consumed, defaultProjectID) ==
    LET keyword == ToLower(parts[1])
        fullID == ToLower(Join(parts))
        gateErr == SecurityGatePart000(keyword, c.lastToken, c.statementVerb)
        known0 == \/ fullID \in c.aliases
                  \/ Len(parts) > 1 /\ keyword \in c.aliases
        registers == \/ c.expectingCTE
                     \/ c.expectingAlias /\ ~IsStructuralKeywordPart000(parts, keyword)
        aliases1 == IF registers THEN c.aliases \cup {fullID, keyword} ELSE c.aliases
        expectingAlias1 == IF c.expectingCTE THEN c.expectingAlias ELSE FALSE
        isKnownAlias == \/ known0
                        \/ ~c.expectingCTE /\ registers
                        \/ fullID \in aliases1
        emits == c.expectingTable /\ ~isKnownAlias
        formatted == formatTableID(parts, defaultProjectID)
        tableIDSet1 == IF emits /\ Len(parts) >= 2 /\ formatted.id # <<>>
                       THEN c.tableIDSet \cup {formatted.id} ELSE c.tableIDSet
        expectingTable2 == IF emits /\ c.lastTableKeyword # kwFrom
                           THEN FALSE ELSE c.expectingTable
        expectingAlias2 == IF emits THEN TRUE ELSE expectingAlias1
        single == Len(parts) = 1
        isWith == single /\ keyword = kwWith
        isAs == single /\ keyword = kwAs
        isFollows == single /\ keyword \in tableFollowsKeywords
        isExit == single /\ keyword \in tableContextExitKeywordsPart000
        adopts == /\ single
                  /\ keyword \in StatementVerbs
                  /\ c.statementVerb \in {<<>>, kwWith}
    IN  IF gateErr # NoErr THEN [err |-> gateErr, c |-> c]
        ELSE IF emits /\ Len(parts) >= 2 /\ formatted.err # NoErr
        THEN [err |-> formatted.err, c |-> c]
        ELSE [err |-> NoErr,
              c |-> [c EXCEPT
                !.i = c.i + consumed,
                !.aliases = aliases1,
                !.tableIDSet = tableIDSet1,
                !.statementVerb = IF isWith THEN kwWith
                                  ELSE IF adopts THEN keyword
                                  ELSE c.statementVerb,
                !.expectingCTE = IF isWith THEN TRUE ELSE FALSE,
                !.expectingAlias =
                    IF isWith THEN expectingAlias2
                    ELSE IF isAs
                    THEN (IF c.statementVerb # kwWith THEN TRUE ELSE expectingAlias2)
                    ELSE IF isFollows \/ isExit THEN FALSE
                    ELSE expectingAlias2,
                !.expectingTable =
                    IF isWith THEN expectingTable2
                    ELSE IF isAs THEN FALSE
                    ELSE IF isFollows THEN TRUE
                    ELSE IF isExit THEN FALSE
                    ELSE expectingTable2,
                !.lastTableKeyword =
                    IF isWith \/ isAs THEN c.lastTableKeyword
                    ELSE IF isFollows THEN keyword
                    ELSE IF isExit THEN <<>>
                    ELSE c.lastTableKeyword,
                !.lastToken = NextLastToken(parts, keyword, c.lastToken)]]

RECURSIVE parseSQLPart000(_, _, _, _, _, _)
RECURSIVE ScanStepPart000(_, _, _, _)
RECURSIVE ScanLoopPart000(_, _, _, _)

\* Lines 246-253, on the result ident of parseIdentifierSequence.
AfterIdentifierPart000(c, ident, defaultProjectID) ==
    IF ident.err # NoErr THEN Return(ParseFail(ident.err, c), c)
    ELSE IF ident.consumed = 0 THEN Continue([c EXCEPT !.i = c.i + 1])
    ELSE AfterIdentifierStep(c, IdentifierStepPart000(c, ident.parts, ident.consumed,
                                                      defaultProjectID))

\* Lines 481-494 and 495-508: the closing quote q of a one-line string,
\* searched from j with a backslash skipping the next code point; -1 when
\* the text ends first.
RECURSIVE ClosingQuotePart000(_, _, _)
ClosingQuotePart000(runes, j, q) ==
    IF j >= Len(runes) THEN -1
    ELSE IF At(runes, j) = "\\" THEN ClosingQuotePart000(runes, j + 2, q)
    ELSE IF At(runes, j) = q THEN j
    ELSE ClosingQuotePart000(runes, j + 1, q)

\* Lines 458-459 and 469-470: the offset strings.Index finds the closing
\* triple quote at, -1 when there is none or no triple quote opens at i.
TripleClosingPart000(runes, i, quotes) ==
    IF HasPrefixAt(runes, i, quotes) THEN IndexFrom(runes, i + 3, quotes) ELSE -1

NoSQLString(n) == [found |-> FALSE, from |-> 0, to |-> 0, n |-> n]
SQLString(from, to, n) == [found |-> TRUE, from |-> from, to |-> to, n |-> n]

\* Lines 458-508: the string literal that opens at i: the bounds of its
\* content and the count returned behind it.
SQLStringAtPart000(runes, i) ==
    IF TripleClosingPart000(runes, i, <<"'", "'", "'">>) # -1
    THEN SQLString(i + 3, i + 3 + TripleClosingPart000(runes, i, <<"'", "'", "'">>),
                   i + 3 + TripleClosingPart000(runes, i, <<"'", "'", "'">>) + 3)
    ELSE IF TripleClosingPart000(runes, i, <<"\"", "\"", "\"">>) # -1
    THEN SQLString(i + 3, i + 3 + TripleClosingPart000(runes, i, <<"\"", "\"", "\"">>),
                   i + 3 + TripleClosingPart000(runes, i, <<"\"", "\"", "\"">>) + 3)
    ELSE IF At(runes, i) = "'" /\ ClosingQuotePart000(runes, i + 1, "'") # -1
    THEN SQLString(i + 1, ClosingQuotePart000(runes, i + 1, "'"),
                   ClosingQuotePart000(runes, i + 1, "'") + 1)
    ELSE IF At(runes, i) = "\"" /\ ClosingQuotePart000(runes, i + 1, "\"") # -1
    THEN SQLString(i + 1, ClosingQuotePart000(runes, i + 1, "\""),
                   ClosingQuotePart000(runes, i + 1, "\"") + 1)
    ELSE NoSQLString(0)

\* Lines 457-511: the first string literal at or behind i; without one the
\* whole text counts as consumed.
RECURSIVE SQLStringFromPart000(_, _)
SQLStringFromPart000(runes, i) ==
    IF i >= Len(runes) THEN NoSQLString(Len(runes))
    ELSE IF SQLStringAtPart000(runes, i).found THEN SQLStringAtPart000(runes, i)
    ELSE SQLStringFromPart000(runes, i + 1)

\* Lines 462-465 and their likes: the error of the nested parse, or the
\* count n behind the literal.
ReturnedBehindPart000(sub, n) ==
    IF sub.err # NoErr THEN ParseFail(sub.err, sub) ELSE [sub EXCEPT !.consumed = n]

\* Lines 461-465 and their likes: parseSQL on the content of the literal.
\* The end of a triple-quoted content is a byte offset: with a multi-byte
\* character in the content it lies behind the closing quotes; behind the
\* length of the slice the content takes in zero code points, behind its
\* capacity the slice expression panics.
ParsedSQLStringPart000(runes, spare, literal, defaultProjectID, tableIDSet, visitedSQLs, aliases) ==
    IF ~literal.found
    THEN [consumed |-> literal.n, err |-> NoErr, tableIDSet |-> tableIDSet,
          visitedSQLs |-> visitedSQLs, aliases |-> aliases]
    ELSE IF literal.to > Len(runes) + spare
    THEN ParseFail(ErrPanic, [tableIDSet |-> tableIDSet,
                              visitedSQLs |-> visitedSQLs, aliases |-> aliases])
    ELSE ReturnedBehindPart000(
             parseSQLPart000(Slice(WithZeroTail(runes, spare), literal.from, literal.to),
                             defaultProjectID,
                             tableIDSet, visitedSQLs, aliases, FALSE),
             literal.n)

\* Lines 456-512. spare is cap(runes) - len(runes).
findAndParseSQLString(runes, spare, defaultProjectID, tableIDSet, visitedSQLs, aliases) ==
    ParsedSQLStringPart000(runes, spare, SQLStringFromPart000(runes, 0), defaultProjectID,
                           tableIDSet, visitedSQLs, aliases)

\* Line 278, behind the returns of lines 259-276: the identifier sequence
\* ident is the keyword immediate behind the token execute.
ExpandsPart000(c, ident) ==
    /\ ident.err = NoErr
    /\ ident.consumed > 0
    /\ SecurityGatePart000(ToLower(ident.parts[1]), c.lastToken, c.statementVerb) = NoErr
    /\ c.lastToken = kwExecute
    /\ ToLower(ident.parts[1]) = kwImmediate

\* Lines 281-287: after the parse sub of the string behind IMMEDIATE.
AfterExpansionPart000(c, consumed, sub) ==
    IF sub.err # NoErr THEN Return(ParseFail(sub.err, sub), c)
    ELSE Continue([c EXCEPT
                     !.i = c.i + consumed + sub.consumed,
                     !.tableIDSet = sub.tableIDSet,
                     !.visitedSQLs = sub.visitedSQLs,
                     !.aliases = sub.aliases,
                     !.lastToken = kwExecuteImmediate])

\* Lines 246-376, on the result ident of parseIdentifierSequence. The slice
\* runes[i+consumed:] of line 281 ends at the length of runes: it panics
\* when the scanner has consumed more than the slice held.
IdentifierBranchPart000(runes, defaultProjectID, c, ident) ==
    IF ExpandsPart000(c, ident) /\ c.i + ident.consumed > Len(runes)
    THEN Return(ParseFail(ErrPanic, c), c)
    ELSE IF ExpandsPart000(c, ident)
    THEN AfterExpansionPart000(c, ident.consumed,
             findAndParseSQLString(From(runes, c.i + ident.consumed),
                                   RuneSpare(Len(runes)), defaultProjectID,
                                   c.tableIDSet, c.visitedSQLs, c.aliases))
    ELSE AfterIdentifierPart000(c, ident, defaultProjectID)

\* Lines 142-452: one iteration of the scan loop on the locals c.
ScanStepPart000(runes, defaultProjectID, inSubquery, c) ==
    IF c.i >= Len(runes)
    THEN Return(IF inSubquery THEN ParseFail(ErrUnclosedSubquery, c)
                ELSE ParseReturn(Len(runes), c), c)
    ELSE IF c.state # stateNormal
    THEN Continue(Enter(c, InsideStep(c.state, runes, c.i)))
    ELSE IF CommentOpening(runes, c.i).n > 0
    THEN Continue(Enter(c, CommentOpening(runes, c.i)))
    ELSE IF At(runes, c.i) = "," THEN Continue(AfterComma(c))
    ELSE IF /\ At(runes, c.i) = "("
            /\ (c.expectingTable \/ c.expectingCTE \/ c.lastToken = kwAs)
    THEN AfterSubquery(c, parseSQLPart000(From(runes, c.i + 1), defaultProjectID,
                                          c.tableIDSet, c.visitedSQLs, c.aliases, TRUE))
    ELSE IF At(runes, c.i) = ")" /\ inSubquery
    THEN Return(ParseReturn(c.i + 1, c), c)
    ELSE IF At(runes, c.i) = ";" THEN Continue(AfterSemicolon(c))
    ELSE IF StringOpening(runes, c.i).n > 0
    THEN Continue(Enter(c, StringOpening(runes, c.i)))
    ELSE IF IsLetter(At(runes, c.i)) \/ At(runes, c.i) = Backtick \/ At(runes, c.i) = "_"
    THEN IdentifierBranchPart000(runes, defaultProjectID, c,
                                 parseIdentifierSequencePart000(
                                     From(runes, c.i), RuneSpare(Len(runes))))
    ELSE Continue([c EXCEPT !.i = c.i + 1])

\* The loop: iterations until one returns.
ScanNextPart000(runes, defaultProjectID, inSubquery, step) ==
    IF step.done THEN step.result
    ELSE ScanLoopPart000(runes, defaultProjectID, inSubquery, step.c)

ScanLoopPart000(runes, defaultProjectID, inSubquery, c) ==
    ScanNextPart000(runes, defaultProjectID, inSubquery,
                    ScanStepPart000(runes, defaultProjectID, inSubquery, c))

\* Lines 130-140: the visited check, then the scan.
parseSQLPart000(sql, defaultProjectID, tableIDSet, visitedSQLs, aliases, inSubquery) ==
    IF sql \in visitedSQLs
    THEN [consumed |-> ByteLen(sql), err |-> NoErr, tableIDSet |-> tableIDSet,
          visitedSQLs |-> visitedSQLs, aliases |-> aliases]
    ELSE ScanLoopPart000(sql, defaultProjectID, inSubquery,
                         NewScan(tableIDSet, visitedSQLs \cup {sql}, aliases))

\* Lines 102-126.
TableParserPart000(sql, defaultProjectID) ==
    FilterAliases(parseSQLPart000(sql, defaultProjectID, {}, {}, {}, FALSE))

(***************************************************************************)
(* The inputs of a call. A SQL text is put together from lexical items;    *)
(* each item records what it is, so that what a text contains is known     *)
(* without scanning it: code, a complete string literal, a complete        *)
(* comment, or a table reference (with the table it names and the keyword  *)
(* it follows). A reference without project names the table in the         *)
(* default project.                                                        *)
(***************************************************************************)
pProj == <<"p","r","o","j">>
pDotted == <<"a",".","b">>
pSpaced == <<"m","y"," ","p","r","o","j">>
dOk == <<"o","k">>
dBad == <<"b","a","d">>

Table(p, d, t) == [project |-> p, dataset |-> d, table |-> t]
NoTable == Table(<<>>, <<>>, <<>>)
TOkA == Table(pProj, dOk, <<"a">>)
TBadT == Table(pProj, dBad, <<"t">>)
TDottedBadT == Table(pDotted, dBad, <<"t">>)
TSpacedOkA == Table(pSpaced, dOk, <<"a">>)
TDefaultBadT == Table(<<>>, dBad, <<"t">>)

Code(s) == [kind |-> "code", text |-> s, table |-> NoTable, after |-> "none"]
StringLit(s, t) == [kind |-> "string", text |-> s, table |-> t, after |-> "none"]
Comment(s, t) == [kind |-> "comment", text |-> s, table |-> t, after |-> "none"]
ExecImmediate(s) == [kind |-> "execute immediate", text |-> s, table |-> NoTable, after |-> "none"]
Ref(s, t, kw) == [kind |-> "ref", text |-> s, table |-> t, after |-> kw]

sBadT == <<"p","r","o","j",".","b","a","d",".","t">>
sOkA == <<"p","r","o","j",".","o","k",".","a">>

\* What stands before the main statement.
Leads ==
    << <<>>,
       \* SELECT r'\' ;    (a raw string that ends in a backslash)
       << Code(<<"S","E","L","E","C","T"," ">>),
          StringLit(<<"r","'","\\","'">>, NoTable),
          Code(<<" ",";"," ">>) >>,
       \* /* FROM proj.bad.t */
       << Comment(<<"/","*"," ","F","R","O","M"," ">> \o sBadT \o <<" ","*","/">>, TBadT),
          Code(<<" ">>) >>,
       \* EXECUTE IMMEDIATE 'x' ;
       << ExecImmediate(<<"E","X","E","C","U","T","E"," ",
                          "I","M","M","E","D","I","A","T","E"," ">>),
          StringLit(<<"'","x","'">>, NoTable),
          Code(<<" ",";"," ">>) >> >>

SelectFrom == Code(<<"S","E","L","E","C","T"," ","*"," ","F","R","O","M"," ">>)

\* The table after FROM: proj.ok.a, proj.bad.t, `proj.bad.t`, bad.t,
\* `a.b`.bad.t, `my proj`.ok.a
Sources ==
    << Ref(sOkA, TOkA, "from"),
       Ref(sBadT, TBadT, "from"),
       Ref(<<Backtick>> \o sBadT \o <<Backtick>>, TBadT, "from"),
       Ref(<<"b","a","d",".","t">>, TDefaultBadT, "from"),
       Ref(<<Backtick,"a",".","b",Backtick,".","b","a","d",".","t">>,
           TDottedBadT, "from"),
       Ref(<<Backtick,"m","y"," ","p","r","o","j",Backtick,".","o","k",".","a">>,
           TSpacedOkA, "from") >>

\* What follows the table: nothing; an alias t and a join; a join; a string
\* that holds a table name; a string that holds a backtick; an unclosed
\* backtick.
Rests ==
    << <<>>,
       << Code(<<" ","t"," ","J","O","I","N"," ">>), Ref(sBadT, TBadT, "join") >>,
       << Code(<<" ","J","O","I","N"," ">>), Ref(sBadT, TBadT, "join") >>,
       << Code(<<" ","W","H","E","R","E"," ","c"," ","="," ">>),
          StringLit(<<"'">> \o sBadT \o <<"'">>, TBadT) >>,
       << Code(<<" ","W","H","E","R","E"," ","c"," ","="," ">>),
          StringLit(<<"'",Backtick,"x","'">>, NoTable) >>,
       << Code(<<" ",Backtick,"x">>) >> >>

\* A query: a lead, the table after FROM and a rest. A lead that is not empty
\* stands before the plain table proj.ok.a.
Queries ==
    {qry \in [lead : 1..Len(Leads), source : 1..Len(Sources), rest : 1..Len(Rests)] :
        qry.lead = 1 \/ qry.source = 1}

Items(qry) == Leads[qry.lead] \o <<SelectFrom, Sources[qry.source]>> \o Rests[qry.rest]

RECURSIVE Concat(_)
Concat(items) == IF Len(items) = 0 THEN <<>> ELSE items[1].text \o Concat(Tail(items))

\* The SQL text of a query.
SQL(qry) == Concat(Items(qry))

\* The default project of a call (the empty string: none configured).
Projects == {<<>>, pProj, pDotted}

\* The allow-lists: sets of (project, dataset).
AllowLists == { {<<pProj, dOk>>}, {<<pProj, dOk>>, <<pDotted, dBad>>} }

(***************************************************************************)
(* The texts TableParser and IsAnyTableExplicitlyReferenced are called on  *)
(* by themselves: what stands before the statement, the keyword before the *)
(* table, the table as written, and what follows it.                       *)
(***************************************************************************)
TBadUpperT == Table(pProj, dBad, <<"T">>)

\* The eight string forms: single, double, triple-single and triple-double
\* quoted, and their raw variants.
StringForms ==
    << [open |-> <<"'">>, close |-> <<"'">>],
       [open |-> <<"\"">>, close |-> <<"\"">>],
       [open |-> <<"'","'","'">>, close |-> <<"'","'","'">>],
       [open |-> <<"\"","\"","\"">>, close |-> <<"\"","\"","\"">>],
       [open |-> <<"r","'">>, close |-> <<"'">>],
       [open |-> <<"r","\"">>, close |-> <<"\"">>],
       [open |-> <<"r","'","'","'">>, close |-> <<"'","'","'">>],
       [open |-> <<"r","\"","\"","\"">>, close |-> <<"\"","\"","\"">>] >>

sFromBadT == <<"F","R","O","M"," ">> \o sBadT

\* SELECT <a string of form k that holds FROM proj.bad.t> ;
StringPre(k) ==
    << Code(<<"S","E","L","E","C","T"," ">>),
       StringLit(StringForms[k].open \o sFromBadT \o StringForms[k].close, TBadT),
       Code(<<" ",";"," ">>) >>

\* What stands before the statement: nothing; a string of each form; a
\* comment of each form; a raw string that ends in a backslash; a string with
\* an escaped quote; an identifier with a comment right behind it; a CTE t.
Pres ==
    << <<>> >> \o [k \in 1..Len(StringForms) |-> StringPre(k)] \o
    << << Comment(<<"/","*"," ">> \o sFromBadT \o <<" ","*","/">>, TBadT), Code(<<" ">>) >>,
       << Comment(<<"-","-"," ">> \o sFromBadT \o <<"\n">>, TBadT) >>,
       << Comment(<<"#"," ">> \o sFromBadT \o <<"\n">>, TBadT) >>,
       << Code(<<"S","E","L","E","C","T"," ">>), StringLit(<<"r","'","\\","'">>, NoTable), Code(<<" ",";"," ">>) >>,
       << Code(<<"S","E","L","E","C","T"," ">>), StringLit(<<"'","i","t","\\","'","s","'">>, NoTable), Code(<<" ",";"," ">>) >>,
       << Code(<<"S","E","L","E","C","T"," ","x">>), Comment(<<"-","-"," ">> \o sFromBadT \o <<"\n">>, TBadT) >>,
       << Code(<<"W","I","T","H"," ","t"," ","A","S"," ","(","S","E","L","E","C","T"," ","1",")"," ">>) >> >>

\* The keyword the table follows: the items before the table, and the keyword.
TableKeywords ==
    << [items |-> << Code(<<"S","E","L","E","C","T"," ","*"," ","F","R","O","M"," ">>) >>, after |-> "from"],
       [items |-> << Code(<<"I","N","S","E","R","T"," ","I","N","T","O"," ">>) >>, after |-> "into"],
       [items |-> << Code(<<"U","P","D","A","T","E"," ">>) >>, after |-> "update"],
       [items |-> << Code(<<"M","E","R","G","E"," ">>) >>, after |-> "merge"],
       [items |-> << Code(<<"C","R","E","A","T","E"," ","T","A","B","L","E"," ">>) >>, after |-> "table"],
       [items |-> << Code(<<"M","E","R","G","E"," ">>), Ref(sOkA, TOkA, "merge"), Code(<<" ","U","S","I","N","G"," ">>) >>,
        after |-> "using"],
       [items |-> << Code(<<"I","N","S","E","R","T"," ">>) >>, after |-> "insert"],
       [items |-> << Code(<<"S","E","L","E","C","T"," ","*"," ","F","R","O","M"," ">>), Ref(sOkA, TOkA, "from"), Code(<<" ","J","O","I","N"," ">>) >>,
        after |-> "join"] >>

\* The table as written: proj.ok.a, proj.bad.t, `proj.bad.t`, bad.t, proj.bad.T
WrittenTables ==
    << [text |-> sOkA, table |-> TOkA],
       [text |-> sBadT, table |-> TBadT],
       [text |-> <<Backtick>> \o sBadT \o <<Backtick>>, table |-> TBadT],
       [text |-> <<"b","a","d",".","t">>, table |-> TDefaultBadT],
       [text |-> <<"p","r","o","j",".","b","a","d",".","T">>, table |-> TBadUpperT] >>

\* What follows the table: nothing; an alias t and a join; a join; AS t; a
\* second table of a comma list; a string that holds a table name.
Posts ==
    << <<>>,
       << Code(<<" ","t"," ","J","O","I","N"," ">>), Ref(sBadT, TBadT, "join") >>,
       << Code(<<" ","J","O","I","N"," ">>), Ref(sBadT, TBadT, "join") >>,
       << Code(<<" ","A","S"," ","t">>) >>,
       << Code(<<","," ">>), Ref(sBadT, TBadT, "comma") >>,
       << Code(<<" ","W","H","E","R","E"," ","c"," ","="," ">>), StringLit(<<"'">> \o sBadT \o <<"'">>, TBadT) >> >>

\* A text; something stands before the statement only when its keyword is
\* FROM.
Texts ==
    {txt \in [pre : 1..Len(Pres), keyword : 1..Len(TableKeywords),
              written : 1..Len(WrittenTables), post : 1..Len(Posts)] :
        txt.pre = 1 \/ txt.keyword = 1}

TextItems(txt) ==
    Pres[txt.pre] \o TableKeywords[txt.keyword].items
    \o << Ref(WrittenTables[txt.written].text, WrittenTables[txt.written].table,
              TableKeywords[txt.keyword].after) >>
    \o Posts[txt.post]

\* The SQL text.
Text(txt) == Concat(TextItems(txt))

(***************************************************************************)
(* The dry run. DryRunQuery returns an error or a job; a job may lack its  *)
(* query statistics; the statistics hold the statement type, the           *)
(* referenced tables and the two optional DDL tables (NoTable: nil).       *)
(***************************************************************************)
MaxReferenced == 2

SchemaTypes == {"CREATE_SCHEMA", "DROP_SCHEMA", "ALTER_SCHEMA"}
RoutineTypes == {"CREATE_FUNCTION", "CREATE_TABLE_FUNCTION", "CREATE_PROCEDURE"}
CallTypes == {"CALL"}
OtherTypes == {"SELECT"}
StatementTypes == SchemaTypes \cup RoutineTypes \cup CallTypes \cup OtherTypes

PlannerTables == {TOkA, TBadT, TDottedBadT}

\* A statement type the gate lets pass comes with referenced tables and no
\* DDL table, or with no referenced table and every combination of DDL tables;
\* one it refuses comes with no table, an allowed one or a rejected one.
Statistics ==
    [statementType : OtherTypes,
     referencedTables : {r \in SUBSET PlannerTables : Cardinality(r) <= MaxReferenced},
     ddlTargetTable : {NoTable},
     ddlDestinationTable : {NoTable}]
    \cup
    [statementType : OtherTypes,
     referencedTables : {{}},
     ddlTargetTable : {NoTable, TOkA},
     ddlDestinationTable : {NoTable, TBadT}]
    \cup
    [statementType : SchemaTypes \cup RoutineTypes \cup CallTypes,
     referencedTables : {{}, {TOkA}, {TBadT}},
     ddlTargetTable : {NoTable},
     ddlDestinationTable : {NoTable}]

NoStatistics ==
    [statementType |-> "", referencedTables |-> {},
     ddlTargetTable |-> NoTable, ddlDestinationTable |-> NoTable]

NoJob == [failed |-> FALSE, hasStatistics |-> FALSE, query |-> NoStatistics]

DryRunOutcomes ==
    {[failed |-> TRUE, hasStatistics |-> FALSE, query |-> NoStatistics],
     [failed |-> FALSE, hasStatistics |-> FALSE, query |-> NoStatistics]}
    \cup {[failed |-> FALSE, hasStatistics |-> TRUE, query |-> st] : st \in Statistics}

\* The errors ValidateQueryAgainstAllowedDatasets returns.
RsnNone == "none"
RsnDryRunFailed == "query validation failed"
RsnNoStatistics == "dry run failed to return query statistics"
RsnDatasetLevel == "dataset-level operations are not allowed"
RsnRoutine == "creating stored routines is not allowed"
RsnCall == "calling stored procedures is not allowed"
RsnAuditFailed == "failed to analyze query for explicit table references"
RsnAccessDenied == "access to dataset is not allowed"
RsnParseFailed == "could not safely analyze query with dataset restrictions"

\* validator.IsDatasetAllowed(projectID, datasetID)
IsDatasetAllowed(allowList, project, dataset) == <<project, dataset>> \in allowList

\* fmt.Sprintf("%s.%s.%s", ref.ProjectId, ref.DatasetId, ref.TableId)
SprintfTableID(ref) == ref.project \o <<".">> \o ref.dataset \o <<".">> \o ref.table

\* Lines 96-109: the table IDs of the dry run.
CollectTableIDs(query) ==
    {SprintfTableID(ref) : ref \in query.referencedTables}
    \cup (IF query.ddlTargetTable # NoTable
          THEN {SprintfTableID(query.ddlTargetTable)} ELSE {})
    \cup (IF query.ddlDestinationTable # NoTable
          THEN {SprintfTableID(query.ddlDestinationTable)} ELSE {})

\* Lines 113-117 and 143-147: an ID of three dot-separated parts whose first
\* two the validator rejects.
IsViolation(tableID, allowList) ==
    LET parts == Split(tableID)
    IN  Len(parts) = 3 /\ ~IsDatasetAllowed(allowList, parts[1], parts[2])

\* A gate that lets CALL pass: C4 fails of it.
GateDeniesButCall(statementType) ==
    \/ statementType \in {"CREATE_SCHEMA", "DROP_SCHEMA", "ALTER_SCHEMA"}
    \/ statementType \in {"CREATE_FUNCTION", "CREATE_TABLE_FUNCTION", "CREATE_PROCEDURE"}

\* Lines 87-94: the statement types the gate refuses.
GateDenies(statementType) ==
    \/ statementType \in {"CREATE_SCHEMA", "DROP_SCHEMA", "ALTER_SCHEMA"}
    \/ statementType \in {"CREATE_FUNCTION", "CREATE_TABLE_FUNCTION", "CREATE_PROCEDURE"}
    \/ statementType = "CALL"

\* A fast allow that does not ask for a table: C9 fails of it.
FastAllowsWithoutTables(ids, violating) == violating = {}

\* Line 121: the dry run alone settles the call.
FastAllows(ids, violating) == ids # {} /\ violating = {}

\* A fallback that overlooks the error of TableParser: C3 fails of it.
FallbackReasonIgnoringError(r, allowList) ==
    IF \E id \in r.tableIDs : IsViolation(id, allowList) THEN RsnAccessDenied
    ELSE RsnNone

\* Lines 139-151: the error the fallback returns on the result r of
\* TableParser, RsnNone when it returns the job.
FallbackReason(r, allowList) ==
    IF r.err # NoErr THEN RsnParseFailed
    ELSE IF \E id \in r.tableIDs : IsViolation(id, allowList) THEN RsnAccessDenied
    ELSE RsnNone

(***************************************************************************)
(* ValidateQueryAgainstAllowedDatasets, one action per block of the        *)
(* function. pc is the block the call stands before.                       *)
(***************************************************************************)
VARIABLES
    sqlText,          \* the SQL text of the call, as a member of Queries
    projectID,        \* the default project
    validator,        \* the allow-list behind IsDatasetAllowed
    pc,               \* the block the call stands before; "done" after return
    job,              \* what DryRunQuery returned
    dryRunTableIDSet,       \* the table IDs collected from the dry run
    violatingTables,  \* those the validator rejects
    audit,            \* the result of IsAnyTableExplicitlyReferenced, once run
    parsed,           \* the result of TableParser, once run
    verdict,          \* "job": the dry-run job is returned; "error": an error;
                      \* "panic": the call ended in a run-time panic
    reason            \* the error returned

vars == <<sqlText, stackBuffer, projectID, validator, pc, job, dryRunTableIDSet, violatingTables,
          audit, parsed, verdict, reason>>

\* What audit and parsed hold: nothing before the block has run, then the
\* result of IsAnyTableExplicitlyReferenced, or of TableParser.
NotRun == [ran |-> FALSE, found |-> FALSE, tableIDs |-> {}, err |-> NoErr]
Audited(r) == [ran |-> TRUE, found |-> r.found, tableIDs |-> {}, err |-> r.err]
Parsed(r) == [ran |-> TRUE, found |-> FALSE, tableIDs |-> r.tableIDs, err |-> r.err]

Init ==
    /\ stackBuffer \in BOOLEAN
    /\ sqlText \in Queries
    /\ projectID \in Projects
    /\ validator \in AllowLists
    /\ pc = "dry run"
    /\ job = NoJob
    /\ dryRunTableIDSet = {}
    /\ violatingTables = {}
    /\ audit = NotRun
    /\ parsed = NotRun
    /\ verdict = "none"
    /\ reason = RsnNone

ReturnError(r) == pc' = "done" /\ verdict' = "error" /\ reason' = r
\* A panic in the auditor or in TableParser: the call ends without a result.
Panics == pc' = "done" /\ verdict' = "panic" /\ reason' = ErrPanic
ReturnJob == pc' = "done" /\ verdict' = "job" /\ reason' = RsnNone
GoOn(next) == pc' = next /\ UNCHANGED <<verdict, reason>>

\* Lines 77-84: the dry run and its statistics.
DryRunQuery ==
    /\ pc = "dry run"
    /\ \E outcome \in DryRunOutcomes :
        /\ job' = outcome
        /\ IF outcome.failed THEN ReturnError(RsnDryRunFailed)
           ELSE IF ~outcome.hasStatistics THEN ReturnError(RsnNoStatistics)
           ELSE GoOn("gate")
    /\ UNCHANGED <<sqlText, stackBuffer, projectID, validator, dryRunTableIDSet, violatingTables, audit, parsed>>

\* Lines 85-94.
StatementTypeGate ==
    /\ pc = "gate"
    /\ LET statementType == job.query.statementType
       IN  IF GateDenies(statementType)
           THEN ReturnError(IF statementType \in SchemaTypes THEN RsnDatasetLevel
                            ELSE IF statementType \in RoutineTypes THEN RsnRoutine
                            ELSE RsnCall)
           ELSE GoOn("collect")
    /\ UNCHANGED <<sqlText, stackBuffer, projectID, validator, job, dryRunTableIDSet, violatingTables,
                   audit, parsed>>

\* Lines 96-123: the tables of the dry run, those the validator rejects, and
\* the return of the job when there are tables and none is rejected.
CollectAndFastAllow ==
    /\ pc = "collect"
    /\ LET ids == CollectTableIDs(job.query)
           violating == {id \in ids : IsViolation(id, validator)}
       IN  /\ dryRunTableIDSet' = ids
           /\ violatingTables' = violating
           /\ IF FastAllows(ids, violating) THEN ReturnJob ELSE GoOn("audit")
    /\ UNCHANGED <<sqlText, stackBuffer, projectID, validator, job, audit, parsed>>

\* Lines 126-134.
AuditExplicit ==
    /\ pc = "audit"
    /\ IF violatingTables # {}
       THEN /\ audit' = Audited(IsAnyTableExplicitlyReferenced(
                                    SQL(sqlText), projectID, violatingTables))
            /\ IF audit'.err = ErrPanic THEN Panics
               ELSE IF audit'.err # NoErr THEN ReturnError(RsnAuditFailed)
               ELSE IF audit'.found THEN ReturnError(RsnAccessDenied)
               ELSE GoOn("fallback")
       ELSE audit' = audit /\ GoOn("fallback")
    /\ UNCHANGED <<sqlText, stackBuffer, projectID, validator, job, dryRunTableIDSet, violatingTables, parsed>>

\* Lines 137-151.
FallbackParse ==
    /\ pc = "fallback"
    /\ parsed' = Parsed(TableParser(SQL(sqlText), projectID))
    /\ IF parsed'.err = ErrPanic THEN Panics
       ELSE IF FallbackReason(parsed', validator) = RsnNone THEN ReturnJob
       ELSE ReturnError(FallbackReason(parsed', validator))
    /\ UNCHANGED <<sqlText, stackBuffer, projectID, validator, job, dryRunTableIDSet, violatingTables, audit>>

Next ==
    \/ DryRunQuery
    \/ StatementTypeGate
    \/ CollectAndFastAllow
    \/ AuditExplicit
    \/ FallbackParse

Spec == Init /\ [][Next]_vars
(***************************************************************************)
(* What a call is about: the tables the dry run reports and the tables the *)
(* SQL text names, read off the items the text is built from.              *)
(***************************************************************************)
\* ReferencedTables, DdlTargetTable and DdlDestinationTable of the statistics.
ReportedTables(query) ==
    query.referencedTables \cup ({query.ddlTargetTable, query.ddlDestinationTable} \ {NoTable})

\* The tables IsDatasetAllowed rejects.
Rejected(tables, allowList) ==
    {t \in tables : ~IsDatasetAllowed(allowList, t.project, t.dataset)}

\* A two-part name stands for a table of the default project.
WithProject(t, p) == IF t.project = <<>> THEN [t EXCEPT !.project = p] ELSE t

ItemsOfKind(qry, kinds) == {k \in 1..Len(Items(qry)) : Items(qry)[k].kind \in kinds}

\* The tables the text names as identifiers outside strings and comments.
NamedTables(qry, p) ==
    {WithProject(Items(qry)[k].table, p) : k \in ItemsOfKind(qry, {"ref"})}

\* The tables whose name stands anywhere in the text.
MentionedTables(qry, p) ==
    {WithProject(Items(qry)[k].table, p) :
        k \in ItemsOfKind(qry, {"ref", "string", "comment"})} \ {WithProject(NoTable, p)}

\* The tables written with three parts after FROM or JOIN.
ThreePartSources(qry) ==
    {Items(qry)[k].table :
        k \in {j \in ItemsOfKind(qry, {"ref"}) :
                 /\ Items(qry)[j].after \in {"from", "join"}
                 /\ Items(qry)[j].table.project # <<>>}}

\* The text holds an EXECUTE IMMEDIATE statement outside strings and comments.
HasExecuteImmediate(qry) == ItemsOfKind(qry, {"execute immediate"}) # {}

\* The call has returned; it returned the job at line 122, or at line 151.
Returned == pc = "done"
PassedGate == job.hasStatistics /\ ~GateDenies(job.query.statementType)
FastAllowed == Returned /\ verdict = "job" /\ ~parsed.ran
FallbackAllowed == Returned /\ verdict = "job" /\ parsed.ran

(***************************************************************************)
(* The claims about ValidateQueryAgainstAllowedDatasets.                   *)
(***************************************************************************)
\* C1: when the dry run passes the gate and reports a table IsDatasetAllowed
\* rejects, and the text names that table outside strings and comments, the
\* call returns an error, never the job.
C1_NamedRejectedTableDenied ==
    (/\ Returned /\ PassedGate
     /\ Rejected(ReportedTables(job.query), validator)
            \cap NamedTables(sqlText, projectID) # {})
    => verdict = "error"

\* C2: the job is returned at the fast allow only if IsDatasetAllowed accepts
\* every table the dry run reports, whatever characters their IDs hold.
C2_FastAllowOnlyAllowedTables ==
    FastAllowed => Rejected(ReportedTables(job.query), validator) = {}

\* C3: a failed dry run, a job without query statistics, a failed auditor
\* and a failed table parser each end the call with an error and no job.
C3_NoJobFromIndeterminateState ==
    (/\ Returned
     /\ \/ job.failed
        \/ ~job.hasStatistics
        \/ audit.ran /\ audit.err # NoErr
        \/ parsed.ran /\ parsed.err # NoErr)
    => verdict = "error"

\* A call the table parser failed on, after the auditor ran and found nothing.
C3_ParserFailedWitness ==
    /\ Returned /\ audit.ran /\ audit.err = NoErr /\ ~audit.found
    /\ parsed.ran /\ parsed.err # NoErr
    /\ verdict = "error" /\ reason = RsnParseFailed

\* C4: a dry run that reports one of the seven restricted statement types
\* ends in an error whatever tables it reports and whatever the allow-list
\* accepts, and the call gets there before it collects a table, audits or
\* parses the text.
C4_GateBeforeAnalysis ==
    (job.hasStatistics
     /\ job.query.statementType \in SchemaTypes \cup RoutineTypes \cup CallTypes)
    => /\ pc \in {"gate", "done"}
       /\ dryRunTableIDSet = {} /\ ~audit.ran /\ ~parsed.ran
       /\ Returned => (verdict = "error"
                        /\ reason \in {RsnDatasetLevel, RsnRoutine, RsnCall})

\* A CALL that reports only an allowed table, refused.
C4_CallRefusedWitness ==
    /\ Returned /\ job.hasStatistics /\ job.query.statementType = "CALL"
    /\ job.query.referencedTables = {TOkA}
    /\ verdict = "error" /\ reason = RsnCall

\* C5: when the fallback parse is reached and TableParser returns the ID of a
\* table whose project and dataset IsDatasetAllowed rejects, the call returns
\* an error, whatever the default project.
C5_FallbackDeniesRejectedTable ==
    (/\ Returned /\ parsed.ran /\ parsed.err = NoErr
     /\ \E t \in Rejected(NamedTables(sqlText, projectID), validator) :
            SprintfTableID(t) \in parsed.tableIDs)
    => verdict = "error"

\* C6: when a three-part table of a rejected dataset follows FROM or JOIN
\* outside strings and comments, and the dry run passes the gate and reports
\* no table at all or a set that holds that table, the call returns an
\* error, also when another table of the text carries an alias that is a
\* dot-suffix of the rejected table's ID.
C6_AliasSuppressionNoFalseAllow ==
    (/\ Returned /\ PassedGate
     /\ \E t \in Rejected(ThreePartSources(sqlText), validator) :
            \/ ReportedTables(job.query) = {}
            \/ t \in ReportedTables(job.query))
    => verdict = "error"

\* C7: a text that holds an EXECUTE IMMEDIATE statement outside strings and
\* comments ends in an error, whatever the dry run reports.
C7_ExecuteImmediateDenied ==
    (Returned /\ HasExecuteImmediate(sqlText)) => verdict = "error"

\* C8: when the dry run passes the gate and reports rejected tables none of
\* which stands in the text, and TableParser extracts from the text only
\* tables of allowed datasets (or none), the call returns the job.
C8_AuthorizedViewAllowed ==
    (/\ Returned /\ PassedGate
     /\ Rejected(ReportedTables(job.query), validator) # {}
     /\ Rejected(ReportedTables(job.query), validator)
            \cap MentionedTables(sqlText, projectID) = {}
     /\ TableParser(SQL(sqlText), projectID).err = NoErr
     /\ \A id \in TableParser(SQL(sqlText), projectID).tableIDs :
            /\ Len(Split(id)) = 3
            /\ IsDatasetAllowed(validator, Split(id)[1], Split(id)[2]))
    => verdict = "job"

\* C9, as the spec states it: with no ReferencedTables the job is never
\* returned at the fast allow, whatever DdlTargetTable and
\* DdlDestinationTable are.
C9_NoFastAllowOnEmptyReferencedTables ==
    (job.hasStatistics /\ job.query.referencedTables = {}) => ~FastAllowed

\* C9, amended: when the dry run reports no table at all (no ReferencedTables,
\* no DdlTargetTable, no DdlDestinationTable) the job is never returned at
\* the fast allow; only the fallback parse returns it.
C9_NoFastAllowOnNoReportedTable ==
    (job.hasStatistics /\ ReportedTables(job.query) = {}) => ~FastAllowed

\* The job returned by the fallback parse after a dry run that reported no
\* table.
C9_FallbackAllowsWitness ==
    /\ job.hasStatistics /\ ReportedTables(job.query) = {}
    /\ FallbackAllowed /\ dryRunTableIDSet = {}

\* C10: every table ID TableParser returns has exactly three dot-separated
\* parts and holds no whitespace, whatever the text and the default project.
C10_ThreePartNoWhitespace ==
    parsed.ran =>
        \A id \in parsed.tableIDs :
            /\ Len(Split(id)) = 3
            /\ \A k \in 1..Len(id) : ~IsSpace(id[k])

(***************************************************************************)
(* TableParser and IsAnyTableExplicitlyReferenced called by themselves on  *)
(* a text of Texts: sqlText is the text, parsed the result of TableParser  *)
(* (with the alias set of the parse), violatingTables the targets given to *)
(* the auditor and audit its result. The other variables stay as they are. *)
(***************************************************************************)
ParsedWithAliases(r) ==
    [ran |-> TRUE, found |-> FALSE, tableIDs |-> r.tableIDs, err |-> r.err,
     aliases |-> r.aliases]

ParserInit ==
    /\ stackBuffer \in BOOLEAN
    /\ sqlText \in Texts
    /\ projectID \in Projects
    /\ validator = {}
    /\ pc = "parse"
    /\ job = NoJob
    /\ dryRunTableIDSet = {}
    /\ violatingTables = {}
    /\ audit = NotRun
    /\ parsed = NotRun
    /\ verdict = "none"
    /\ reason = RsnNone

\* tables, err := TableParser(sql, defaultProjectID)
CallTableParser ==
    /\ pc = "parse"
    /\ parsed' = ParsedWithAliases(TableParser(Text(sqlText), projectID))
    /\ pc' = "audit"
    /\ UNCHANGED <<sqlText, stackBuffer, projectID, validator, job, dryRunTableIDSet,
                   violatingTables, audit, verdict, reason>>

\* The targets the auditor is called with: the list TableParser returned, or
\* one table.
AuditTargets == {parsed.tableIDs, {sBadT}, {sOkA}} \ {{}}

\* found, err := IsAnyTableExplicitlyReferenced(sql, defaultProjectID, targets)
CallAuditor ==
    /\ pc = "audit"
    /\ \E targets \in AuditTargets :
        /\ violatingTables' = targets
        /\ audit' = Audited(IsAnyTableExplicitlyReferenced(
                                Text(sqlText), projectID, targets))
    /\ pc' = "done"
    /\ UNCHANGED <<sqlText, stackBuffer, projectID, validator, job, dryRunTableIDSet,
                   parsed, verdict, reason>>

\* The same call of the second variant of the auditor.
CallAuditorPart000 ==
    /\ pc = "audit"
    /\ \E targets \in AuditTargets :
        /\ violatingTables' = targets
        /\ audit' = Audited(IsAnyTableExplicitlyReferencedPart000(
                                Text(sqlText), projectID, targets))
    /\ pc' = "done (part_000)"
    /\ UNCHANGED <<sqlText, stackBuffer, projectID, validator, job, dryRunTableIDSet,
                   parsed, verdict, reason>>

ParserNext == CallTableParser \/ CallAuditor \/ CallAuditorPart000

ParserSpec == ParserInit /\ [][ParserNext]_vars

\* What a text of Texts holds, read off its items.
TablesOfKind(txt, kinds) ==
    {TextItems(txt)[k].table :
        k \in {j \in 1..Len(TextItems(txt)) : TextItems(txt)[j].kind \in kinds}}
    \ {NoTable}

\* C11: no ID TableParser returns has a dot-suffix (the whole ID included)
\* that, lowercased, is in the alias set of that parse.
C11_NoAliasSuffixReturned ==
    (parsed.ran /\ parsed.err = NoErr) =>
        \A id \in parsed.tableIDs :
            \A j \in 0..(Len(Split(id)) - 1) :
                ToLower(Join(PartsFrom(Split(id), j))) \notin parsed.aliases

\* A parse that registered the alias t, read proj.bad.t after JOIN and
\* returned proj.ok.a alone.
C11_AliasFilteredWitness ==
    /\ parsed.ran /\ parsed.err = NoErr
    /\ sqlText.pre = 1 /\ sqlText.keyword = 1 /\ sqlText.written = 1 /\ sqlText.post = 2
    /\ <<"t">> \in parsed.aliases
    /\ parsed.tableIDs = {sOkA}

\* The IDs, lowercased, of the tables a text names outside strings and
\* comments (a two-part name with the default project before it), and of
\* those that stand inside its strings and comments.
OutsideIDs(txt, p) ==
    {ToLower(SprintfTableID(WithProject(t, p))) : t \in TablesOfKind(txt, {"ref"})}
InsideIDs(txt) ==
    {ToLower(SprintfTableID(t)) : t \in TablesOfKind(txt, {"string", "comment"})}

\* The text has a string or a comment before its statement.
HasStringOrCommentBefore(txt) ==
    \E k \in 1..Len(Pres[txt.pre]) : Pres[txt.pre][k].kind \in {"string", "comment"}

\* Every table reference of the text is written with three parts.
OnlyThreePartReferences(txt) ==
    \A t \in TablesOfKind(txt, {"ref"}) : t.project # <<>>

CalledBoth == pc = "done" /\ parsed.ran /\ audit.ran

\* C13: for a text with three-part references only on which TableParser
\* returns a non-empty list, IsAnyTableExplicitlyReferenced called with that
\* list returns true, also with raw strings, escaped quotes and comments
\* around the references.
C13_RoundTrip ==
    (/\ CalledBoth
     /\ OnlyThreePartReferences(sqlText)
     /\ parsed.err = NoErr /\ parsed.tableIDs # {}
     /\ violatingTables = parsed.tableIDs)
    => (audit.found /\ audit.err = NoErr)

\* C14: IsAnyTableExplicitlyReferenced returns false for a target that stands
\* in the text only inside strings and comments, and true for a target that
\* stands outside them behind a string or a comment.
C14_StringsAndCommentsHideNothingElse ==
    (audit.ran /\ violatingTables = {sBadT}) =>
        /\ (sBadT \in InsideIDs(sqlText) /\ sBadT \notin OutsideIDs(sqlText, projectID))
              => ~audit.found
        /\ (sBadT \in OutsideIDs(sqlText, projectID) /\ HasStringOrCommentBefore(sqlText))
              => audit.found

\* C15: TableParser returns no ID of a table that stands in the text only
\* inside strings and comments.
C15_NoTableFromStringOrComment ==
    (parsed.ran /\ parsed.err = NoErr) =>
        \A id \in parsed.tableIDs :
            ~(ToLower(id) \in InsideIDs(sqlText)
              /\ ToLower(id) \notin OutsideIDs(sqlText, projectID))

\* The text has the two-part name bad.t right after its table keyword.
TwoPartAfterKeyword(txt) == WrittenTables[txt.written].table = TDefaultBadT

\* C16: on a two-part name in a table position that is no alias, TableParser
\* without a default project fails with the missing-project error and returns
\* no list; with a default project the scan collects
\* defaultProject.dataset.table.
C16_TwoPartNeedsDefaultProject ==
    (parsed.ran /\ TwoPartAfterKeyword(sqlText)) =>
        IF projectID = <<>>
        THEN parsed.err = ErrMissingProject /\ parsed.tableIDs = {}
        ELSE /\ parsed.err = NoErr
             /\ projectID \o <<".","b","a","d",".","t">>
                   \in parseSQL(Text(sqlText), projectID, {}, {}, {}, FALSE).tableIDSet

\* UPDATE bad.t without a default project: the missing-project error.
C16_MissingProjectWitness ==
    /\ parsed.ran /\ projectID = <<>>
    /\ sqlText.pre = 1 /\ sqlText.keyword = 3 /\ sqlText.written = 4 /\ sqlText.post = 1
    /\ parsed.err = ErrMissingProject /\ parsed.tableIDs = {}

\* The three-part tables that stand right after FROM, JOIN, INTO, UPDATE,
\* TABLE, USING, INSERT or MERGE outside strings and comments.
TablesAfterKeyword(txt) ==
    {TextItems(txt)[k].table :
        k \in {j \in 1..Len(TextItems(txt)) :
                 /\ TextItems(txt)[j].kind = "ref"
                 /\ TextItems(txt)[j].after \in {"from", "join", "into", "update",
                                                 "table", "using", "insert", "merge"}
                 /\ TextItems(txt)[j].table.project # <<>>}}

\* C17: when TableParser succeeds, every three-part table right after a
\* table keyword outside strings and comments is in the list it returns.
C17_NoUnderReport ==
    (parsed.ran /\ parsed.err = NoErr) =>
        \A t \in TablesAfterKeyword(sqlText) : SprintfTableID(t) \in parsed.tableIDs

(***************************************************************************)
(* The loops, one step per iteration. A call of TableParser is a stack of  *)
(* parseSQL frames (the text of the scan, its locals, whether it is        *)
(* nested); a call of IsAnyTableExplicitlyReferenced is its state and      *)
(* cursor and, while parseIdentifierSequence runs, the cursor and the      *)
(* parts of that scanner. parsed holds the one, audit the other.           *)
(***************************************************************************)
LoopTexts ==
    {
       \* nothing
       <<>>,
       \* two nested subqueries
       <<"S","E","L","E","C","T"," ","*"," ","F","R","O","M"," ","(","S","E","L","E","C","T"," ","*"," ","F","R","O","M"," ","(","S","E","L","E","C","T"," ","1",")"," ","x",")"," ","y">>,
       \* a subquery that is not closed
       <<"S","E","L","E","C","T"," ","*"," ","F","R","O","M"," ","(","S","E","L","E","C","T"," ","1">>,
       \* a table in two pairs of parentheses
       <<"F","R","O","M"," ","(","(","p","r","o","j",".","b","a","d",".","t",")",")">>,
       \* a CTE, then a comma list
       <<"W","I","T","H"," ","t"," ","A","S"," ","(","S","E","L","E","C","T"," ","1",")"," ","S","E","L","E","C","T"," ","1"," ","F","R","O","M"," ","t",",","p","r","o","j",".","b","a","d",".","t">>,
       \* a backtick that is not closed
       <<"S","E","L","E","C","T"," ","*"," ","F","R","O","M"," ",Backtick,"x">>,
       \* a string that is not closed
       <<"S","E","L","E","C","T"," ","'","a"," ","-","-"," ","b">>,
       \* a block comment that is not closed
       <<"a"," ","/","*"," ","F","R","O","M"," ","b">>,
       \* comments between the parts of an identifier
       <<"F","R","O","M"," ","p","r","o","j"," ","."," ","/","*"," ","c"," ","*","/"," ","b","a","d"," ","-","-"," ","d","\n"," ","."," ","t">>,
       \* a comment that is not closed behind a part
       <<"F","R","O","M"," ","p","r","o","j"," ","/","*"," ","x">>,
       \* letters outside ASCII in a quoted part and in comments
       <<"F","R","O","M"," ",Backtick,EAcute,Backtick,".","x"," ","/","*"," ",EAcute," ","*","/"," ","."," ","y"," ","#"," ",EAcute,"\n","z">>,
       \* a raw string that ends in a backslash
       <<"S","E","L","E","C","T"," ","r","'","\\","'"," ",";"," ","x">>,
       \* an identifier that ends in a dot
       <<"F","R","O","M"," ","p","r","o","j",".","b","a","d",".","t",".">>,
       \* punctuation only
       <<"(",")",",",";",".","*","=","-"," ",")">>,
       \* white space only
       <<" ","\n","\t"," ">>,
       \* an escaped quote at the end
       <<"S","E","L","E","C","T"," ","'","i","t","\\">> }

\* No result of a nested parseSQL is waiting for its caller.
NoSub ==
    [consumed |-> -1, err |-> NoErr, tableIDSet |-> {}, visitedSQLs |-> {},
     aliases |-> {}]

Frame(runes, c, inSubquery) == [runes |-> runes, c |-> c, inSubquery |-> inSubquery]
Top(frames) == frames[Len(frames)]

\* TableParser under way, and returned.
Scanning(frames, sub) ==
    [frames |-> frames, sub |-> sub, ran |-> FALSE, tableIDs |-> {}, err |-> NoErr]
Scanned(r) ==
    [frames |-> <<>>, sub |-> NoSub, ran |-> TRUE, tableIDs |-> r.tableIDs,
     err |-> r.err]

\* The top frame returns result: to TableParser (lines 84-103), or to the
\* parseSQL that called it (line 154).
TopReturns(frames, result) ==
    IF Len(frames) = 1 THEN Scanned(FilterAliases(result))
    ELSE Scanning(SubSeq(frames, 1, Len(frames) - 1), result)

\* The top frame after an iteration that ended in step.
AfterIteration(frames, step) ==
    IF step.done THEN TopReturns(frames, step.result)
    ELSE Scanning([frames EXCEPT ![Len(frames)].c = step.c], NoSub)

\* Line 152: the iteration of frame f stands at a parenthesis that opens a
\* subquery.
AtSubquery(f) ==
    /\ f.c.i < Len(f.runes)
    /\ f.c.state = stateNormal
    /\ At(f.runes, f.c.i) = "("
    /\ (f.c.expectingTable \/ f.c.expectingCTE \/ f.c.lastToken = kwAs)

\* Lines 108-118: parseSQL is entered on sql by the top frame with locals c;
\* a text already visited returns at once.
Called(frames, c, sql) ==
    IF sql \in c.visitedSQLs
    THEN Scanning(frames, [consumed |-> ByteLen(sql), err |-> NoErr,
                           tableIDSet |-> c.tableIDSet,
                           visitedSQLs |-> c.visitedSQLs, aliases |-> c.aliases])
    ELSE Scanning(Append(frames,
                         Frame(sql, NewScan(c.tableIDSet, c.visitedSQLs \cup {sql},
                                            c.aliases), TRUE)),
                  NoSub)

\* parseIdentifierSequence is not running; it runs, at r[totalConsumed] with
\* the parts read so far.
NoScanner == [on |-> FALSE, totalConsumed |-> 0, parts |-> <<>>]
Scanner(totalConsumed, parts) ==
    [on |-> TRUE, totalConsumed |-> totalConsumed, parts |-> parts]

\* The auditor under way.
Auditing(state, i, scanner) ==
    [state |-> state, i |-> i, scanner |-> scanner, ran |-> FALSE,
     found |-> FALSE, err |-> NoErr]

\* The auditor after an iteration that ended in step.
AfterAuditIteration(step) ==
    [state |-> step.state, i |-> step.i, scanner |-> NoScanner,
     ran |-> step.done, found |-> step.result.found, err |-> step.result.err]

\* The auditor after a round of the scanner: the round returns and the
\* iteration ends in step, or another round follows.
AfterRound(a, round, step) ==
    IF round.done THEN AfterAuditIteration(step)
    ELSE [a EXCEPT !.scanner = Scanner(round.consumed, round.parts)]

\* Lines 503 (546 in part_000): the iteration stands at the start of an
\* identifier.
AtIdentifier(runes, state, i) ==
    /\ i < Len(runes)
    /\ state = stateNormal
    /\ CommentOpening(runes, i).n = 0
    /\ (IsLetter(At(runes, i)) \/ At(runes, i) = Backtick \/ At(runes, i) = "_")

\* Lines 471-479: the targets, lowercased.
LowerTargets(targetTableIDs) == {ToLower(id) : id \in targetTableIDs}

pcParseSQL == "parseSQL"
pcAuditor == "IsAnyTableExplicitlyReferenced"
pcAuditorPart000 == "IsAnyTableExplicitlyReferenced (part_000)"

LoopInit ==
    /\ stackBuffer \in BOOLEAN
    /\ sqlText \in LoopTexts
    /\ projectID \in {<<>>, pProj}
    /\ validator = {}
    /\ pc \in {pcParseSQL, pcAuditor, pcAuditorPart000}
    /\ job = NoJob
    /\ dryRunTableIDSet = {}
    /\ violatingTables = {sBadT}
    /\ audit = Auditing(stateNormal, 0, NoScanner)
    /\ parsed = Scanning(<<Frame(sqlText, NewScan({}, {sqlText}, {}), FALSE)>>, NoSub)
    /\ verdict = "none"
    /\ reason = RsnNone

LoopReturns(ran) == pc' = IF ran THEN "done" ELSE pc

\* Lines 120-417 but 152-153: the call after one iteration of the scan loop
\* of the top frame.
IteratedFrames(frames, defaultProjectID) ==
    AfterIteration(frames,
                   ScanStep(Top(frames).runes, defaultProjectID,
                            Top(frames).inSubquery, Top(frames).c))

ScanIterated == IteratedFrames(parsed.frames, projectID)

ScanIteration ==
    /\ pc = pcParseSQL
    /\ parsed.sub = NoSub
    /\ ~AtSubquery(Top(parsed.frames))
    /\ parsed' = ScanIterated
    /\ LoopReturns(parsed'.ran)
    /\ UNCHANGED <<sqlText, stackBuffer, projectID, validator, job, dryRunTableIDSet,
                   violatingTables, audit, verdict, reason>>

\* Lines 152-153: the iteration calls parseSQL on the text behind the
\* parenthesis.
CalledFrames(frames) ==
    Called(frames, Top(frames).c, From(Top(frames).runes, Top(frames).c.i + 1))

ParseSQLCalled == CalledFrames(parsed.frames)

CallParseSQL ==
    /\ pc = pcParseSQL
    /\ parsed.sub = NoSub
    /\ AtSubquery(Top(parsed.frames))
    /\ parsed' = ParseSQLCalled
    /\ UNCHANGED <<sqlText, stackBuffer, projectID, validator, pc, job, dryRunTableIDSet,
                   violatingTables, audit, verdict, reason>>

\* Lines 154-165: the nested parseSQL has returned, the iteration that called
\* it ends.
ReturnedFrames(frames, sub) ==
    AfterIteration(frames, AfterSubquery(Top(frames).c, sub))

ParseSQLReturned == ReturnedFrames(parsed.frames, parsed.sub)

ReturnToParseSQL ==
    /\ pc = pcParseSQL
    /\ parsed.sub # NoSub
    /\ parsed' = ParseSQLReturned
    /\ LoopReturns(parsed'.ran)
    /\ UNCHANGED <<sqlText, stackBuffer, projectID, validator, job, dryRunTableIDSet,
                   violatingTables, audit, verdict, reason>>

\* Lines 481-636 but 503-505: one iteration of the auditor's loop.
AuditIterated ==
    AfterAuditIteration(AuditStep(sqlText, projectID, LowerTargets(violatingTables),
                                  audit.state, audit.i))

AuditIteration ==
    /\ pc = pcAuditor
    /\ ~audit.scanner.on
    /\ ~AtIdentifier(sqlText, audit.state, audit.i)
    /\ audit' = AuditIterated
    /\ LoopReturns(audit'.ran)
    /\ UNCHANGED <<sqlText, stackBuffer, projectID, validator, job, dryRunTableIDSet,
                   violatingTables, parsed, verdict, reason>>

\* Line 504: the iteration calls parseIdentifierSequence on the text from the
\* cursor.
ScannerCalled == [audit EXCEPT !.scanner = Scanner(0, <<>>)]

CallScanner ==
    /\ pc = pcAuditor
    /\ ~audit.scanner.on
    /\ AtIdentifier(sqlText, audit.state, audit.i)
    /\ audit' = ScannerCalled
    /\ UNCHANGED <<sqlText, stackBuffer, projectID, validator, pc, job, dryRunTableIDSet,
                   violatingTables, parsed, verdict, reason>>

\* Lines 426-464: one round of parseIdentifierSequence; when it returns, the
\* iteration that called it ends (lines 505-529).
ScannerRounded ==
    AfterRound(audit,
        IdentRound(From(sqlText, audit.i), audit.scanner.totalConsumed,
                   audit.scanner.parts),
        AuditIdentifier(sqlText, projectID, LowerTargets(violatingTables), audit.i,
            IdentResult(IdentRound(From(sqlText, audit.i),
                                   audit.scanner.totalConsumed,
                                   audit.scanner.parts))))

ScannerRound ==
    /\ pc = pcAuditor
    /\ audit.scanner.on
    /\ audit' = ScannerRounded
    /\ LoopReturns(audit'.ran)
    /\ UNCHANGED <<sqlText, stackBuffer, projectID, validator, job, dryRunTableIDSet,
                   violatingTables, parsed, verdict, reason>>

\* The same three steps of the second variant (part_000, lines 525-680 and
\* 687-773).
AuditIteratedPart000 ==
    AfterAuditIteration(
        AuditStepPart000(sqlText, projectID, LowerTargets(violatingTables),
                         audit.state, audit.i))

AuditIterationPart000 ==
    /\ pc = pcAuditorPart000
    /\ ~audit.scanner.on
    /\ ~AtIdentifier(sqlText, audit.state, audit.i)
    /\ audit' = AuditIteratedPart000
    /\ LoopReturns(audit'.ran)
    /\ UNCHANGED <<sqlText, stackBuffer, projectID, validator, job, dryRunTableIDSet,
                   violatingTables, parsed, verdict, reason>>

CallScannerPart000 ==
    /\ pc = pcAuditorPart000
    /\ ~audit.scanner.on
    /\ AtIdentifier(sqlText, audit.state, audit.i)
    /\ audit' = ScannerCalled
    /\ UNCHANGED <<sqlText, stackBuffer, projectID, validator, pc, job, dryRunTableIDSet,
                   violatingTables, parsed, verdict, reason>>

ScannerRoundedPart000 ==
    AfterRound(audit,
        IdentRoundPart000(From(sqlText, audit.i), audit.scanner.totalConsumed,
                          audit.scanner.parts, RuneSpare(Len(sqlText))),
        AuditIdentifierPart000(sqlText, projectID, LowerTargets(violatingTables),
            audit.i,
            IdentResult(IdentRoundPart000(From(sqlText, audit.i),
                                          audit.scanner.totalConsumed,
                                          audit.scanner.parts,
                                          RuneSpare(Len(sqlText))))))

ScannerRoundPart000 ==
    /\ pc = pcAuditorPart000
    /\ audit.scanner.on
    /\ audit' = ScannerRoundedPart000
    /\ LoopReturns(audit'.ran)
    /\ UNCHANGED <<sqlText, stackBuffer, projectID, validator, job, dryRunTableIDSet,
                   violatingTables, parsed, verdict, reason>>

LoopNext ==
    \/ ScanIteration
    \/ CallParseSQL
    \/ ReturnToParseSQL
    \/ AuditIteration
    \/ CallScanner
    \/ ScannerRound
    \/ AuditIterationPart000
    \/ CallScannerPart000
    \/ ScannerRoundPart000

LoopSpec == LoopInit /\ [][LoopNext]_vars

\* The number of opening parentheses of a text.
Parentheses(s) == Len(SelectSeq(s, LAMBDA ch : ch = "("))

\* An iteration of the scan loop that ends without a return leaves the cursor
\* of its frame further on; a nested parseSQL scans a shorter text.
ScanAdvances ==
    pc = pcParseSQL /\ pc' = pcParseSQL =>
        /\ (Len(parsed'.frames) = Len(parsed.frames) /\ parsed'.sub = NoSub
               => Top(parsed'.frames).c.i > Top(parsed.frames).c.i)
        /\ (Len(parsed'.frames) > Len(parsed.frames)
               => Len(Top(parsed'.frames).runes) < Len(Top(parsed.frames).runes))

\* An iteration of the auditor's loop that ends without a return leaves the
\* cursor further on, and so does a round of the identifier scanner.
AuditAdvances ==
    pc \in {pcAuditor, pcAuditorPart000} /\ pc' = pc =>
        /\ (~audit'.scanner.on => audit'.i > audit.i)
        /\ (audit.scanner.on /\ audit'.scanner.on
               => audit'.scanner.totalConsumed > audit.scanner.totalConsumed)

\* The step a call under way takes next does not leave it as it is.
NextStepMoves ==
    /\ pc = pcParseSQL =>
          parsed # (IF parsed.sub # NoSub THEN ParseSQLReturned
                    ELSE IF AtSubquery(Top(parsed.frames)) THEN ParseSQLCalled
                    ELSE ScanIterated)
    /\ pc = pcAuditor =>
          audit # (IF audit.scanner.on THEN ScannerRounded
                   ELSE IF AtIdentifier(sqlText, audit.state, audit.i)
                   THEN ScannerCalled ELSE AuditIterated)
    /\ pc = pcAuditorPart000 =>
          audit # (IF audit.scanner.on THEN ScannerRoundedPart000
                   ELSE IF AtIdentifier(sqlText, audit.state, audit.i)
                   THEN ScannerCalled ELSE AuditIteratedPart000)

\* C12: TableParser and IsAnyTableExplicitlyReferenced terminate on every
\* text: a call that has not returned always has a next step; every iteration
\* of the scan loops and every round of the identifier scanner returns or
\* leaves its cursor at least one code point further on; a nested parseSQL
\* scans a shorter text, and the nesting is at most the number of opening
\* parentheses of the text.
C12_Terminates ==
    /\ [][ScanAdvances /\ AuditAdvances]_vars
    /\ [](pc = pcParseSQL => Len(parsed.frames) <= 1 + Parentheses(sqlText))
    /\ []NextStepMoves

\* C12: a parseSQL two subqueries deep, its scan under way.
C12_NestedScanWitness ==
    /\ pc = pcParseSQL
    /\ Len(parsed.frames) = 3
    /\ Top(parsed.frames).c.i > 0

(***************************************************************************)
(* The parameter helpers of util.go. BQTypeStringFromToolType works on     *)
(* whole type names (strings); InitializeDatasetParameters on allow-list   *)
(* entries and descriptions, code point by code point.                     *)
(***************************************************************************)
\* fmt.Errorf("unsupported tool parameter type for BigQuery: %s", toolType)
ErrUnsupportedType(toolType) ==
    "unsupported tool parameter type for BigQuery: " \o toolType

\* A conversion that takes every unknown type for a string: C18 fails of it.
BQTypeStringFromToolTypeLenient(toolType) ==
    IF toolType = "integer" THEN [type |-> "INT64", err |-> NoErr]
    ELSE IF toolType = "float" THEN [type |-> "FLOAT64", err |-> NoErr]
    ELSE IF toolType = "boolean" THEN [type |-> "BOOL", err |-> NoErr]
    ELSE [type |-> "STRING", err |-> NoErr]

\* Lines 155-168.
BQTypeStringFromToolType(toolType) ==
    IF toolType = "string" THEN [type |-> "STRING", err |-> NoErr]
    ELSE IF toolType = "integer" THEN [type |-> "INT64", err |-> NoErr]
    ELSE IF toolType = "float" THEN [type |-> "FLOAT64", err |-> NoErr]
    ELSE IF toolType = "boolean" THEN [type |-> "BOOL", err |-> NoErr]
    ELSE [type |-> "", err |-> ErrUnsupportedType(toolType)]

\* The code points of the names and descriptions, in the order of their
\* bytes: sort.Strings compares byte by byte.
ByteOrder ==
    <<" ", ",", "-", ".", "0", "1", "2", "3", "4", "5", "6", "7", "8", "9", ":", ";",
      "A", "B", "C", "D", "E", "F", "G", "H", "I", "J", "K", "L", "M",
      "N", "O", "P", "Q", "R", "S", "T", "U", "V", "W", "X", "Y", "Z",
      "_", Backtick,
      "a", "b", "c", "d", "e", "f", "g", "h", "i", "j", "k", "l", "m",
      "n", "o", "p", "q", "r", "s", "t", "u", "v", "w", "x", "y", "z">>

Ord(c) == CHOOSE k \in 1..Len(ByteOrder) : ByteOrder[k] = c

\* s < t of two Go strings.
LessString(s, t) ==
    \E k \in 1..Len(t) :
        /\ k <= Len(s) + 1
        /\ \A j \in 1..(k - 1) : s[j] = t[j]
        /\ IF k = Len(s) + 1 THEN TRUE ELSE Ord(s[k]) < Ord(t[k])

\* sort.Strings
InsertString(x, sorted) ==
    SelectSeq(sorted, LAMBDA y : ~LessString(x, y)) \o <<x>>
    \o SelectSeq(sorted, LAMBDA y : LessString(x, y))

RECURSIVE SortStrings(_)
SortStrings(list) ==
    IF Len(list) = 0 THEN <<>>
    ELSE InsertString(list[1], SortStrings(Tail(list)))

\* strings.Join(list, sep)
RECURSIVE JoinWith(_, _)
JoinWith(list, sep) ==
    IF Len(list) = 0 THEN <<>>
    ELSE IF Len(list) = 1 THEN list[1]
    ELSE list[1] \o sep \o JoinWith(Tail(list), sep)

\* fmt.Sprintf("`%s`", s)
Quote(s) == <<Backtick>> \o s \o <<Backtick>>

sMustBe == <<" ","M","u","s","t"," ","b","e"," ">>
sMustBeOneOfTheFollowing ==
    <<" ","M","u","s","t"," ","b","e"," ","o","n","e"," ","o","f"," ","t","h","e"," ",
      "f","o","l","l","o","w","i","n","g",":"," ">>
sMustBeOneOfTheAllowedDatasets ==
    <<" ","M","u","s","t"," ","b","e"," ","o","n","e"," ","o","f"," ","t","h","e"," ",
      "a","l","l","o","w","e","d"," ","d","a","t","a","s","e","t","s",":"," ">>
sFromProject == <<" ","f","r","o","m"," ","p","r","o","j","e","c","t"," ">>

\* parts[0] and parts[1] of strings.Split(ds, ".")
ProjectOf(ds) == Split(ds)[1]
DatasetOf(ds) == Split(ds)[2]

\* The keys of the map of line 186.
ProjectsOf(allowedDatasets) ==
    {ProjectOf(allowedDatasets[k]) : k \in 1..Len(allowedDatasets)}

\* Lines 186-192: the quoted datasets of each project, in the order of the
\* allow-list.
DatasetIDsByProject(allowedDatasets) ==
    [project \in ProjectsOf(allowedDatasets) |->
        LET own == SelectSeq(allowedDatasets, LAMBDA ds : ProjectOf(ds) = project)
        IN  [k \in 1..Len(own) |-> Quote(DatasetOf(own[k]))]]

\* The orders in which `range` may hand out the keys of a map.
RangeOrders(keys) ==
    {order \in [1..Cardinality(keys) -> keys] :
        \A a, b \in 1..Cardinality(keys) : a # b => order[a] # order[b]}

\* Lines 194-202: the two lists, built in the order the map is ranged over,
\* then sorted.
ProjectIDList(order) == SortStrings([k \in 1..Len(order) |-> Quote(order[k])])

DatasetDescriptions(datasetIDsByProject, order) ==
    SortStrings([k \in 1..Len(order) |->
        JoinWith(SortStrings(datasetIDsByProject[order[k]]), <<",", " ">>)
        \o sFromProject \o Quote(order[k])])

\* A parameter: its default ("none": it has none) and its description.
NoDefault == "none"
Parameter(default, description) == [default |-> default, description |-> description]

\* Lines 170-214. order is the order the map of line 186 is ranged over.
InitializeDatasetParameters(allowedDatasets, defaultProjectID, projectDescription, datasetDescription, order) ==
    IF Len(allowedDatasets) = 0
    THEN [projectParam |-> Parameter(defaultProjectID, projectDescription),
          datasetParam |-> Parameter(NoDefault, datasetDescription)]
    ELSE IF Len(allowedDatasets) = 1
    THEN [projectParam |->
              Parameter(ProjectOf(allowedDatasets[1]),
                        projectDescription \o sMustBe
                        \o Quote(ProjectOf(allowedDatasets[1])) \o <<".">>),
          datasetParam |->
              Parameter(DatasetOf(allowedDatasets[1]),
                        datasetDescription \o sMustBe
                        \o Quote(DatasetOf(allowedDatasets[1])) \o <<".">>)]
    ELSE [projectParam |->
              Parameter(defaultProjectID,
                        projectDescription \o sMustBeOneOfTheFollowing
                        \o JoinWith(ProjectIDList(order), <<",", " ">>) \o <<".">>),
          datasetParam |->
              Parameter(NoDefault,
                        datasetDescription \o sMustBeOneOfTheAllowedDatasets
                        \o JoinWith(DatasetDescriptions(
                                        DatasetIDsByProject(allowedDatasets), order),
                                    <<";", " ">>) \o <<".">>)]

\* The type names BQTypeStringFromToolType is called on.
ToolTypes ==
    {"string", "integer", "float", "boolean",
     "String", "STRING", "Integer", "INTEGER", "Float", "FLOAT", "Boolean", "BOOLEAN",
     "INT64", "FLOAT64", "BOOL", "int", "int64", "bool", "number", "array",
     "object", "map", " string", "string ", ""}

SupportedToolTypes == {"string", "integer", "float", "boolean"}

\* The allow-list entries: two datasets of one project, a dataset and a
\* project whose names go on behind another name, and a second project.
AllowedEntries ==
    { <<"p","r","o","j",".","o","k">>,
      <<"p","r","o","j",".","b","a","d">>,
      <<"p","r","o","j",".","o","k","_","2">>,
      <<"p","r","o","j","-","2",".","x">>,
      <<"o","t","h","e","r",".","d","s">> }

MaxAllowed == 3

\* Every list of up to MaxAllowed entries, in every order, repeats included.
AllowedDatasetLists == UNION {[1..n -> AllowedEntries] : n \in 0..MaxAllowed}

sProjectDescription == <<"P","r","o","j","e","c","t",".">>
sDatasetDescription == <<"D","a","t","a","s","e","t",".">>

pcBQType == "BQTypeStringFromToolType"
pcInitialize == "InitializeDatasetParameters"

\* Two calls of BQTypeStringFromToolType one after the other (job: their
\* arguments, parsed: what the calls made so far returned), or one call of
\* InitializeDatasetParameters (validator: the allow-list, parsed: the two
\* parameters returned).
ParameterInit ==
    /\ stackBuffer \in BOOLEAN
    /\ sqlText = <<>>
    /\ projectID = pProj
    /\ pc \in {pcBQType, pcInitialize}
    /\ IF pc = pcBQType
       THEN job \in [1..2 -> ToolTypes] /\ validator = <<>>
       ELSE job = <<>> /\ validator \in AllowedDatasetLists
    /\ dryRunTableIDSet = {}
    /\ violatingTables = {}
    /\ audit = NotRun
    /\ parsed = <<>>
    /\ verdict = "none"
    /\ reason = RsnNone

CallBQTypeStringFromToolType ==
    /\ pc = pcBQType
    /\ parsed' = Append(parsed, BQTypeStringFromToolType(job[Len(parsed) + 1]))
    /\ pc' = IF Len(parsed') = Len(job) THEN "done" ELSE pc
    /\ UNCHANGED <<sqlText, stackBuffer, projectID, validator, job, dryRunTableIDSet,
                   violatingTables, audit, verdict, reason>>

CallInitializeDatasetParameters ==
    /\ pc = pcInitialize
    /\ \E order \in RangeOrders(ProjectsOf(validator)) :
           parsed' = InitializeDatasetParameters(validator, projectID,
                         sProjectDescription, sDatasetDescription, order)
    /\ pc' = "done"
    /\ UNCHANGED <<sqlText, stackBuffer, projectID, validator, job, dryRunTableIDSet,
                   violatingTables, audit, verdict, reason>>

ParameterNext == CallBQTypeStringFromToolType \/ CallInitializeDatasetParameters

ParameterSpec == ParameterInit /\ [][ParameterNext]_vars

\* The BigQuery type of each supported tool type, as the specification
\* gives it.
BigQueryTypeOf ==
    [t \in SupportedToolTypes |->
        CASE t = "string" -> "STRING" [] t = "integer" -> "INT64"
          [] t = "float" -> "FLOAT64" [] t = "boolean" -> "BOOL"]

\* C18: a call on one of the four supported types returns its BigQuery type
\* and no error, two such calls return the same type only for the same
\* argument, and a call on anything else returns the empty type and the
\* `unsupported tool parameter type for BigQuery` error.
C18_TypeMapping ==
    job # <<>> =>
        /\ \A k \in 1..Len(parsed) :
              IF job[k] \in SupportedToolTypes
              THEN parsed[k] = [type |-> BigQueryTypeOf[job[k]], err |-> NoErr]
              ELSE /\ parsed[k].type = ""
                   /\ parsed[k].err =
                          "unsupported tool parameter type for BigQuery: " \o job[k]
        /\ Len(parsed) = 2 /\ parsed[1].err = NoErr /\ parsed[2].err = NoErr
           /\ parsed[1].type = parsed[2].type => job[1] = job[2]

\* C18: a supported type and the same word in capitals have both been
\* converted.
C18_OtherCaseWitness ==
    /\ pc = "done"
    /\ job = <<"boolean", "BOOLEAN">>
    /\ Len(parsed) = 2
    /\ parsed[1].type = "BOOL"
    /\ parsed[2].err # NoErr

\* The names a description lists: what stands between the first and the
\* second backtick, between the third and the fourth, and so on.
BacktickPositions(s) == SelectSeq([k \in 1..Len(s) |-> k], LAMBDA k : s[k] = Backtick)
QuotedAt(s, pos) ==
    [j \in 1..(Len(pos) \div 2) |-> SubSeq(s, pos[2 * j - 1] + 1, pos[2 * j] - 1)]
Quoted(s) == QuotedAt(s, BacktickPositions(s))

\* The groups of a dataset description: its pieces between semicolons.
Cuts(s) ==
    <<0>> \o SelectSeq([k \in 1..Len(s) |-> k], LAMBDA k : s[k] = ";")
    \o <<Len(s) + 1>>
GroupsAt(s, cuts) ==
    [j \in 1..(Len(cuts) - 1) |-> SubSeq(s, cuts[j] + 1, cuts[j + 1] - 1)]
Groups(s) == GroupsAt(s, Cuts(s))

\* The names a group lists are its datasets and, last, its project.
GroupProject(names) == names[Len(names)]
GroupDatasets(names) == SubSeq(names, 1, Len(names) - 1)

\* A list of names in ascending order.
IsSorted(names) == \A k \in 1..(Len(names) - 1) : ~LessString(names[k + 1], names[k])

DatasetsOf(allowedDatasets, project) ==
    {DatasetOf(allowedDatasets[k]) :
        k \in {j \in 1..Len(allowedDatasets) : ProjectOf(allowedDatasets[j]) = project}}

\* The project description lists each project of the allow-list once, in
\* ascending order.
ListsProjects(listed, allowedDatasets) ==
    /\ {listed[k] : k \in 1..Len(listed)} = ProjectsOf(allowedDatasets)
    /\ Len(listed) = Cardinality(ProjectsOf(allowedDatasets))
    /\ IsSorted(listed)

\* The dataset description has one group for each project, and the group
\* lists the datasets of the project in ascending order.
ListsDatasets(groups, allowedDatasets) ==
    /\ Len(groups) = Cardinality(ProjectsOf(allowedDatasets))
    /\ {GroupProject(Quoted(groups[k])) : k \in 1..Len(groups)}
           = ProjectsOf(allowedDatasets)
    /\ \A k \in 1..Len(groups) :
          /\ IsSorted(GroupDatasets(Quoted(groups[k])))
          /\ {GroupDatasets(Quoted(groups[k]))[j] :
                 j \in 1..(Len(Quoted(groups[k])) - 1)}
                 = DatasetsOf(allowedDatasets, GroupProject(Quoted(groups[k])))

\* The allow-list in every order of its entries.
Reorderings(list) ==
    {[k \in 1..Len(list) |-> list[order[k]]] : order \in RangeOrders(1..Len(list))}

\* C19: for an allow-list of two or more entries the project description
\* lists each distinct project once in ascending order, the dataset
\* description has a group for each project with its datasets in ascending
\* order, and every order of the entries gives the same two parameters.
C19_SortedDescriptions ==
    pc = "done" /\ job = <<>> /\ Len(validator) >= 2 =>
        /\ ListsProjects(Quoted(parsed.projectParam.description), validator)
        /\ ListsDatasets(Groups(parsed.datasetParam.description), validator)
        /\ \A other \in Reorderings(validator) :
              \A order \in RangeOrders(ProjectsOf(other)) :
                  InitializeDatasetParameters(other, projectID, sProjectDescription,
                                              sDatasetDescription, order) = parsed

(***************************************************************************)
(* Calls that run at the same time, each in its goroutine, one step per    *)
(* loop iteration. The goroutines share a memory: the maps made so far     *)
(* (a map holds a set of strings and is known by its address) and the two  *)
(* package-level keyword maps. job is that memory; sqlText, projectID,     *)
(* violatingTables and pc hold the arguments and the position of each      *)
(* call, parsed and audit its locals. The first call is one of             *)
(* TableParser.                                                            *)
(***************************************************************************)
NumCalls == 2
Calls == 1..NumCalls

\* FROM proj.bad.t   and   FROM (a) t   and   from `a (the backtick not closed)
ConcurrentTexts ==
    { <<"F","R","O","M"," ","p","r","o","j",".","b","a","d",".","t">>,
      <<"F","R","O","M"," ","(","a",")"," ","t">>,
      <<"f","r","o","m"," ",Backtick,"a">> }

pcTableParser == "TableParser"
pcDone == "done"

Memory(maps, follows, exits) ==
    [maps |-> maps, tableFollowsKeywords |-> follows,
     tableContextExitKeywords |-> exits]

\* A make that hands out the first map again: C20 fails of it.
MakeFirstAgain(maps) == 1

\* make(map[string]struct{}): the address of the new map.
Make(maps) == Len(maps) + 1

\* The maps after the map at address is made: it is empty.
Made(maps, address) ==
    IF address > Len(maps) THEN Append(maps, {})
    ELSE [maps EXCEPT ![address] = {}]

AfterMake(maps) == Made(maps, Make(maps))

\* Lines 81-83: the three maps of a call of TableParser.
MapsOfTableParser(maps) ==
    [tableIDSet |-> Make(maps),
     visitedSQLs |-> Make(AfterMake(maps)),
     aliases |-> Make(AfterMake(AfterMake(maps)))]

\* The locals c (or the result of a nested parseSQL) with the maps as they
\* are in memory: a map is a reference.
Load(c, maps, at) ==
    [c EXCEPT !.tableIDSet = maps[at.tableIDSet],
              !.visitedSQLs = maps[at.visitedSQLs],
              !.aliases = maps[at.aliases]]

LoadFrames(frames, maps, at) ==
    [frames EXCEPT ![Len(frames)].c = Load(frames[Len(frames)].c, maps, at)]

LoadSub(sub, maps, at) == IF sub = NoSub \/ sub.err # NoErr THEN sub ELSE Load(sub, maps, at)

\* The memory with the maps as holder has them.
Store(maps, at, holder) ==
    [address \in 1..Len(maps) |->
        IF address = at.aliases THEN holder.aliases
        ELSE IF address = at.visitedSQLs THEN holder.visitedSQLs
        ELSE IF address = at.tableIDSet THEN holder.tableIDSet
        ELSE maps[address]]

\* The memory after a step of a call that left it in scan: the maps are what
\* the step made of them.
StoreScan(maps, at, scan) ==
    IF scan.ran THEN maps
    ELSE IF scan.sub # NoSub
    THEN (IF scan.sub.err = NoErr THEN Store(maps, at, scan.sub) ELSE maps)
    ELSE Store(maps, at, Top(scan.frames).c)

\* A call of TableParser: its scan and the addresses of its maps.
ParserCall(scan, at) == [scan |-> scan, at |-> at]
NoMaps == [tableIDSet |-> 0, visitedSQLs |-> 0, aliases |-> 0]
NoParserCall == ParserCall(Scanning(<<>>, NoSub), NoMaps)

\* A call of IsAnyTableExplicitlyReferenced: its loop and the address of its
\* map of targets.
AuditorCall(loop, targets) == [loop |-> loop, targets |-> targets]
NoAuditorCall == AuditorCall(Auditing(stateNormal, 0, NoScanner), 0)

\* Lines 108-118, for the parseSQL that TableParser calls: a text already in
\* the visited map returns at once.
Entered(sql, maps, at) ==
    IF sql \in maps[at.visitedSQLs]
    THEN Scanned(FilterAliases([err |-> NoErr, tableIDSet |-> maps[at.tableIDSet],
                                aliases |-> maps[at.aliases]]))
    ELSE Scanning(<<Frame(sql, NewScan(maps[at.tableIDSet],
                                       maps[at.visitedSQLs] \cup {sql},
                                       maps[at.aliases]), FALSE)>>, NoSub)

\* Lines 120-417: the step a parseSQL under way takes next.
Turn(frames, sub, defaultProjectID) ==
    IF sub # NoSub THEN ReturnedFrames(frames, sub)
    ELSE IF AtSubquery(Top(frames)) THEN CalledFrames(frames)
    ELSE IteratedFrames(frames, defaultProjectID)

ConcurrentInit ==
    /\ stackBuffer \in BOOLEAN
    /\ sqlText \in [Calls -> ConcurrentTexts]
    /\ projectID = [id \in Calls |-> pProj]
    /\ validator = {}
    /\ pc \in {kind \in [Calls -> {pcTableParser, pcAuditor}] : kind[1] = pcTableParser}
    /\ job = Memory(<<>>, tableFollowsKeywords, tableContextExitKeywords)
    /\ dryRunTableIDSet = {}
    /\ violatingTables \in [Calls -> {{sBadT}, {}}]
    /\ audit = [id \in Calls |-> NoAuditorCall]
    /\ parsed = [id \in Calls |-> NoParserCall]
    /\ verdict = "none"
    /\ reason = RsnNone

\* Lines 81-84 and 108-118: TableParser makes its maps and enters parseSQL.
StartTableParser(id) ==
    /\ pc[id] = pcTableParser
    /\ parsed' = [parsed EXCEPT ![id] =
           ParserCall(Entered(sqlText[id],
                              AfterMake(AfterMake(AfterMake(job.maps))),
                              MapsOfTableParser(job.maps)),
                      MapsOfTableParser(job.maps))]
    /\ job' = [job EXCEPT !.maps =
           StoreScan(AfterMake(AfterMake(AfterMake(job.maps))),
                     parsed'[id].at, parsed'[id].scan)]
    /\ pc' = [pc EXCEPT ![id] = IF parsed'[id].scan.ran THEN pcDone ELSE pcParseSQL]
    /\ UNCHANGED <<sqlText, stackBuffer, projectID, validator, dryRunTableIDSet, violatingTables,
                   audit, verdict, reason>>

\* Lines 120-417: one step of the parseSQL of call id, on the maps as they
\* are in memory.
ParseSQLStep(id) ==
    /\ pc[id] = pcParseSQL
    /\ parsed' = [parsed EXCEPT ![id].scan =
           Turn(LoadFrames(parsed[id].scan.frames, job.maps, parsed[id].at),
                LoadSub(parsed[id].scan.sub, job.maps, parsed[id].at),
                projectID[id])]
    /\ job' = [job EXCEPT !.maps = StoreScan(job.maps, parsed[id].at, parsed'[id].scan)]
    /\ pc' = [pc EXCEPT ![id] = IF parsed'[id].scan.ran THEN pcDone ELSE pcParseSQL]
    /\ UNCHANGED <<sqlText, stackBuffer, projectID, validator, dryRunTableIDSet, violatingTables,
                   audit, verdict, reason>>

\* Lines 469-479: with an empty list of targets the auditor returns false
\* at once, without a map and without a look at the text; otherwise it
\* makes its map of targets and fills it.
StartAuditor(id) ==
    /\ pc[id] = pcAuditor
    /\ audit[id].targets = 0
    /\ ~audit[id].loop.ran
    /\ IF violatingTables[id] = {}
       THEN /\ audit' = [audit EXCEPT ![id].loop.ran = TRUE,
                                      ![id].loop.found = FALSE,
                                      ![id].loop.err = NoErr]
            /\ job' = job
            /\ pc' = [pc EXCEPT ![id] = pcDone]
       ELSE /\ audit' = [audit EXCEPT ![id].targets = Make(job.maps)]
            /\ job' = [job EXCEPT !.maps =
                   [AfterMake(job.maps) EXCEPT ![Make(job.maps)] =
                       LowerTargets(violatingTables[id])]]
            /\ pc' = pc
    /\ UNCHANGED <<sqlText, stackBuffer, projectID, validator, dryRunTableIDSet,
                   violatingTables, parsed, verdict, reason>>

\* Lines 481-636: one iteration of the auditor's loop of call id.
AuditorStep(id) ==
    /\ pc[id] = pcAuditor
    /\ audit[id].targets # 0
    /\ audit' = [audit EXCEPT ![id].loop =
           AfterAuditIteration(
               AuditStep(sqlText[id], projectID[id], job.maps[audit[id].targets],
                         audit[id].loop.state, audit[id].loop.i))]
    /\ pc' = [pc EXCEPT ![id] = IF audit'[id].loop.ran THEN pcDone ELSE pcAuditor]
    /\ UNCHANGED <<sqlText, stackBuffer, projectID, validator, job, dryRunTableIDSet,
                   violatingTables, parsed, verdict, reason>>

ConcurrentNext ==
    \E id \in Calls :
        \/ StartTableParser(id)
        \/ ParseSQLStep(id)
        \/ StartAuditor(id)
        \/ AuditorStep(id)

ConcurrentSpec == ConcurrentInit /\ [][ConcurrentNext]_vars

\* The addresses of the maps call id has made.
MapsOf(id) ==
    ({parsed[id].at.tableIDSet, parsed[id].at.visitedSQLs, parsed[id].at.aliases,
      audit[id].targets}) \ {0}

\* What TableParser and the auditor return when nothing else runs.
ParserResult(r) == [tableIDs |-> r.tableIDs, err |-> r.err]
AuditorResult(r) == [found |-> r.found, err |-> r.err]

\* C20: calls that run at the same time share no map: the maps of two calls
\* are different maps, the three maps of a call of TableParser are different
\* maps, the package-level keyword maps stay as they are, and a call that
\* has returned has returned what it returns on its arguments when it runs
\* alone, whatever the other calls did in between.
C20_CallsShareNothing ==
    /\ \A id, other \in Calls : id # other => MapsOf(id) \cap MapsOf(other) = {}
    /\ \A id \in Calls :
          parsed[id].at # NoMaps => Cardinality(MapsOf(id)) = 3
    /\ job.tableFollowsKeywords = tableFollowsKeywords
    /\ job.tableContextExitKeywords = tableContextExitKeywords
    /\ \A id \in Calls :
          /\ parsed[id].scan.ran =>
                ParserResult(parsed[id].scan)
                    = ParserResult(TableParser(sqlText[id], projectID[id]))
          /\ audit[id].loop.ran =>
                AuditorResult(audit[id].loop)
                    = IsAnyTableExplicitlyReferenced(sqlText[id], projectID[id],
                                                     violatingTables[id])

\* C20: two calls of TableParser under way at the same time: the first has
\* collected proj.bad.t, the second has registered its alias t, neither has
\* returned.
C20_InterleavedWitness ==
    /\ pc = [id \in Calls |-> pcParseSQL]
    /\ sBadT \in job.maps[parsed[1].at.tableIDSet]
    /\ <<"t">> \in job.maps[parsed[2].at.aliases]

(***************************************************************************)
(* Scripts, one step per iteration: the loops of both variants of the      *)
(* table extractor and of the auditor on texts with restricted keywords,   *)
(* DDL statements, comma lists, aliases and CTEs, several statements,      *)
(* parentheses inside subqueries, and strings and comments that are or     *)
(* are not closed. In these texts parentheses stand in code only, except   *)
(* for the one subquery that ends inside a string.                         *)
(***************************************************************************)
ScriptTexts ==
    {
       \* a procedure call
       <<"C","A","L","L"," ","p","r","o","j",".","o","k",".","p","(",")">>,
       \* a call in lower case behind a statement
       <<"S","E","L","E","C","T"," ","1",";"," ","c","a","l","l"," ","p","(",")">>,
       \* a call two subqueries deep
       <<"S","E","L","E","C","T"," ","1"," ","F","R","O","M"," ","(","S","E","L","E","C","T"," ","1"," ","F","R","O","M"," ","(","C","a","L","l"," ","x",")",")">>,
       \* call in a string and in a comment only
       <<"S","E","L","E","C","T"," ","'","c","a","l","l","'"," ","-","-"," ","c","a","l","l","\n"," ","F","R","O","M"," ","p","r","o","j",".","o","k",".","a">>,
       \* call as the first part of a dotted name
       <<"S","E","L","E","C","T"," ","c","a","l","l",".","x"," ","F","R","O","M"," ","p","r","o","j",".","o","k",".","a">>,
       \* call in backticks
       <<"S","E","L","E","C","T"," ",Backtick,"c","a","l","l",Backtick>>,
       \* a function
       <<"C","R","E","A","T","E"," ","F","U","N","C","T","I","O","N"," ","f","(",")"," ","A","S"," ","(","1",")">>,
       \* a procedure, replaced
       <<"C","R","E","A","T","E"," ","O","R"," ","R","E","P","L","A","C","E"," ","P","R","O","C","E","D","U","R","E"," ","p","(",")"," ","B","E","G","I","N"," ","E","N","D">>,
       \* a table function
       <<"C","R","E","A","T","E"," ","T","A","B","L","E"," ","F","U","N","C","T","I","O","N"," ","f","(",")"," ","A","S"," ","(","S","E","L","E","C","T"," ","1",")">>,
       \* a table function, replaced
       <<"c","r","e","a","t","e"," ","o","r"," ","r","e","p","l","a","c","e"," ","t","a","b","l","e"," ","f","u","n","c","t","i","o","n"," ","p","r","o","j",".","o","k",".","f","(",")">>,
       \* the chain CREATE OR
       <<"C","R","E","A","T","E"," ","O","R"," ","F","U","N","C","T","I","O","N"," ","f","(",")">>,
       \* the two words in one quoted part
       <<"C","R","E","A","T","E"," ",Backtick,"t","a","b","l","e"," ","f","u","n","c","t","i","o","n",Backtick," ","f">>,
       \* a schema dropped
       <<"D","R","O","P"," ","S","C","H","E","M","A"," ","p","r","o","j",".","o","k">>,
       \* the word schema in a statement behind a DDL statement
       <<"A","L","T","E","R"," ","T","A","B","L","E"," ","p","r","o","j",".","o","k",".","a",";"," ","S","E","L","E","C","T"," ","s","c","h","e","m","a"," ","F","R","O","M"," ","p","r","o","j",".","o","k",".","a">>,
       \* the word dataset inside a DDL statement
       <<"C","R","E","A","T","E"," ","T","A","B","L","E"," ","p","r","o","j",".","o","k",".","a"," ","A","S"," ","S","E","L","E","C","T"," ","d","a","t","a","s","e","t"," ","F","R","O","M"," ","p","r","o","j",".","o","k",".","b">>,
       \* a dataset dropped inside a subquery
       <<"S","E","L","E","C","T"," ","1"," ","F","R","O","M"," ","(","d","r","o","p"," ","d","a","t","a","s","e","t"," ","x",")">>,
       \* a DDL verb that does not lead the statement
       <<"S","E","L","E","C","T"," ","1"," ","D","R","O","P"," ","S","C","H","E","M","A"," ","x">>,
       \* a schema altered behind a CTE
       <<"W","I","T","H"," ","c"," ","A","S"," ","(","S","E","L","E","C","T"," ","1",")"," ","A","L","T","E","R"," ","S","C","H","E","M","A"," ","s">>,
       \* a comma list
       <<"S","E","L","E","C","T"," ","*"," ","F","R","O","M"," ","p","r","o","j",".","o","k",".","a",","," ","p","r","o","j",".","o","k",".","b",","," ","p","r","o","j",".","b","a","d",".","t">>,
       \* a comma list with aliases
       <<"S","E","L","E","C","T"," ","*"," ","F","R","O","M"," ","p","r","o","j",".","o","k",".","a"," ","x",","," ","p","r","o","j",".","o","k",".","b"," ","A","S"," ","y",","," ","p","r","o","j",".","b","a","d",".","t"," ","z">>,
       \* a comma list whose aliases are the table names
       <<"S","E","L","E","C","T"," ","*"," ","F","R","O","M"," ","p","r","o","j",".","o","k",".","a"," ","a",","," ","p","r","o","j",".","b","a","d",".","t"," ","A","S"," ","t">>,
       \* a comma list of two-part names
       <<"S","E","L","E","C","T"," ","*"," ","F","R","O","M"," ","o","k",".","a",","," ","b","a","d",".","t"," ","u">>,
       \* an alias, then a column of it
       <<"S","E","L","E","C","T"," ","*"," ","F","R","O","M"," ","p","r","o","j",".","o","k",".","a"," ","A","S"," ","x"," ","W","H","E","R","E"," ","x",".","c"," ","="," ","1">>,
       \* an alias, then a name under it in a table position
       <<"S","E","L","E","C","T"," ","*"," ","F","R","O","M"," ","p","r","o","j",".","o","k",".","a"," ","A","S"," ","x"," ","J","O","I","N"," ","x",".","c">>,
       \* a CTE, then its name
       <<"W","I","T","H"," ","t"," ","A","S"," ","(","S","E","L","E","C","T"," ","1",")"," ","S","E","L","E","C","T"," ","*"," ","F","R","O","M"," ","t">>,
       \* a CTE, then a two-part name that ends in its name
       <<"W","I","T","H"," ","t"," ","A","S"," ","(","S","E","L","E","C","T"," ","1",")"," ","S","E","L","E","C","T"," ","*"," ","F","R","O","M"," ","a",".","t">>,
       \* a CTE, then a name under it
       <<"W","I","T","H"," ","t"," ","A","S"," ","(","S","E","L","E","C","T"," ","1",")"," ","S","E","L","E","C","T"," ","*"," ","F","R","O","M"," ","t",".","x">>,
       \* an alias behind AS in a statement that begins with WITH
       <<"W","I","T","H"," ","w"," ","A","S"," ","(","S","E","L","E","C","T"," ","1",")"," ","S","E","L","E","C","T"," ","*"," ","F","R","O","M"," ","p","r","o","j",".","o","k",".","a"," ","A","S"," ","x",","," ","x",".","c">>,
       \* a CTE, then a table of its name in a later statement
       <<"W","I","T","H"," ","t"," ","A","S"," ","(","S","E","L","E","C","T"," ","1",")"," ","S","E","L","E","C","T"," ","1",";"," ","S","E","L","E","C","T"," ","*"," ","F","R","O","M"," ","p","r","o","j",".","b","a","d",".","t">>,
       \* an alias, then names under it in two later statements
       <<"S","E","L","E","C","T"," ","*"," ","F","R","O","M"," ","p","r","o","j",".","o","k",".","a"," ","x",";"," ","S","E","L","E","C","T"," ","*"," ","F","R","O","M"," ","x",".","y",";"," ","D","E","L","E","T","E"," ","F","R","O","M"," ","x",".","z">>,
       \* semicolons inside a chain and behind a verb
       <<"C","R","E","A","T","E"," ","O","R",";"," ","R","E","P","L","A","C","E"," ","F","U","N","C","T","I","O","N"," ","f",";"," ","D","R","O","P",";"," ","S","C","H","E","M","A"," ","s">>,
       \* a function call inside a subquery
       <<"S","E","L","E","C","T"," ","*"," ","F","R","O","M"," ","(","S","E","L","E","C","T"," ","C","O","U","N","T","(","*",")"," ","F","R","O","M"," ","p","r","o","j",".","b","a","d",".","t",")"," ","x">>,
       \* a parenthesised condition inside a subquery
       <<"S","E","L","E","C","T"," ","*"," ","F","R","O","M"," ","(","S","E","L","E","C","T"," ","a"," ","F","R","O","M"," ","p","r","o","j",".","o","k",".","a"," ","W","H","E","R","E"," ","(","b"," ","="," ","1",")",")"," ","y">>,
       \* subqueries without further parentheses
       <<"S","E","L","E","C","T"," ","*"," ","F","R","O","M"," ","(","S","E","L","E","C","T"," ","*"," ","F","R","O","M"," ","(","S","E","L","E","C","T"," ","1",")"," ","x",")"," ","y">>,
       \* a subquery that is not closed
       <<"S","E","L","E","C","T"," ","*"," ","F","R","O","M"," ","(","S","E","L","E","C","T"," ","1">>,
       \* a closed subquery inside one that is not closed
       <<"S","E","L","E","C","T"," ","*"," ","F","R","O","M"," ","(","S","E","L","E","C","T"," ","*"," ","F","R","O","M"," ","(","S","E","L","E","C","T"," ","1",")"," ","x">>,
       \* two subqueries that are not closed
       <<"S","E","L","E","C","T"," ","*"," ","F","R","O","M"," ","(","S","E","L","E","C","T"," ","*"," ","F","R","O","M"," ","(","S","E","L","E","C","T"," ","1">>,
       \* a subquery that ends inside a string
       <<"S","E","L","E","C","T"," ","*"," ","F","R","O","M"," ","(","S","E","L","E","C","T"," ","'","a",")">>,
       \* a string that is not closed
       <<"S","E","L","E","C","T"," ","'","a"," ","-","-"," ","b">>,
       \* a line comment at the end
       <<"S","E","L","E","C","T"," ","1"," ","-","-"," ","e","n","d">>,
       \* a block comment that is not closed
       <<"S","E","L","E","C","T"," ","1"," ","/","*"," ","o","p","e","n">>,
       \* strings and comments of several forms, all closed
       <<"S","E","L","E","C","T"," ","'","a","'",","," ","\"","b","\"",","," ","'","'","'","c","'","'","'",","," ","r","\"","d","\""," ","/","*"," ","e"," ","*","/"," ","#"," ","f","\n"," ","F","R","O","M"," ","p","r","o","j",".","o","k",".","a">>,
       \* a raw string with a backslash inside
       <<"S","E","L","E","C","T"," ","r","'","\\","n","'"," ","F","R","O","M"," ","p","r","o","j",".","b","a","d",".","t">>,
       \* a raw string that ends in a backslash
       <<"S","E","L","E","C","T"," ","r","'","\\","'"," ",";"," ","S","E","L","E","C","T"," ","*"," ","F","R","O","M"," ","p","r","o","j",".","o","k",".","a">>,
       \* a raw triple-quoted string
       <<"S","E","L","E","C","T"," ","R","\"","\"","\"","a","\"","b","\\","\"","\"","\""," ","F","R","O","M"," ","p","r","o","j",".","o","k",".","a">>,
       \* a table, then WHERE and a name
       <<"S","E","L","E","C","T"," ","*"," ","F","R","O","M"," ","p","r","o","j",".","o","k",".","a"," ","W","H","E","R","E"," ","x",".","y">>,
       \* a table, then GROUP and a name
       <<"S","E","L","E","C","T"," ","*"," ","F","R","O","M"," ","p","r","o","j",".","o","k",".","a"," ","G","r","o","u","p"," ","x",".","y">>,
       \* a table, then ORDER and a name
       <<"S","E","L","E","C","T"," ","*"," ","F","R","O","M"," ","p","r","o","j",".","o","k",".","a"," ","O","R","D","E","R"," ","x",".","y">>,
       \* a table, then HAVING and a name
       <<"S","E","L","E","C","T"," ","*"," ","F","R","O","M"," ","p","r","o","j",".","o","k",".","a"," ","h","a","v","i","n","g"," ","x",".","y">>,
       \* a table, then LIMIT and a name
       <<"S","E","L","E","C","T"," ","*"," ","F","R","O","M"," ","p","r","o","j",".","o","k",".","a"," ","L","I","M","I","T"," ","x",".","y">>,
       \* a table, then WINDOW and a name
       <<"S","E","L","E","C","T"," ","*"," ","F","R","O","M"," ","p","r","o","j",".","o","k",".","a"," ","W","I","N","D","O","W"," ","x",".","y">>,
       \* a table, then UNION and a name
       <<"S","E","L","E","C","T"," ","*"," ","F","R","O","M"," ","p","r","o","j",".","o","k",".","a"," ","U","N","I","O","N"," ","x",".","y">>,
       \* a table, then INTERSECT and a name
       <<"S","E","L","E","C","T"," ","*"," ","F","R","O","M"," ","p","r","o","j",".","o","k",".","a"," ","i","n","t","e","r","s","e","c","t"," ","x",".","y">>,
       \* a table, then EXCEPT and a name
       <<"S","E","L","E","C","T"," ","*"," ","F","R","O","M"," ","p","r","o","j",".","o","k",".","a"," ","E","X","C","E","P","T"," ","x",".","y">>,
       \* a table, then ON and a name
       <<"S","E","L","E","C","T"," ","*"," ","F","R","O","M"," ","p","r","o","j",".","o","k",".","a"," ","O","N"," ","x",".","y">>,
       \* a table, then SET and a name
       <<"U","P","D","A","T","E"," ","p","r","o","j",".","o","k",".","a"," ","S","E","T"," ","x",".","y">>,
       \* a table, then WHEN and a name
       <<"M","E","R","G","E"," ","p","r","o","j",".","o","k",".","a"," ","W","H","E","N"," ","x",".","y">>,
       \* two queries joined by UNION ALL
       <<"S","E","L","E","C","T"," ","1"," ","F","R","O","M"," ","p","r","o","j",".","o","k",".","a"," ","U","N","I","O","N"," ","A","L","L"," ","S","E","L","E","C","T"," ","1"," ","F","R","O","M"," ","p","r","o","j",".","b","a","d",".","t">>,
       \* a CTE, then a select list with commas
       <<"W","I","T","H"," ","a"," ","A","S"," ","(","S","E","L","E","C","T"," ","1",")"," ","S","E","L","E","C","T"," ","x",","," ","t"," ","F","R","O","M"," ","p","r","o","j",".","b","a","d",".","t">>,
       \* a CTE, then an update with two assignments
       <<"W","I","T","H"," ","a"," ","A","S"," ","(","S","E","L","E","C","T"," ","1",")"," ","U","P","D","A","T","E"," ","p","r","o","j",".","o","k",".","a"," ","S","E","T"," ","b"," ","="," ","1",","," ","c"," ","="," ","2">>,
       \* two CTEs, then a delete
       <<"W","I","T","H"," ","a"," ","A","S"," ","(","S","E","L","E","C","T"," ","1",")",","," ","b"," ","A","S"," ","(","S","E","L","E","C","T"," ","2",")"," ","D","E","L","E","T","E"," ","F","R","O","M"," ","p","r","o","j",".","o","k",".","a">>,
       \* the same subquery twice
       <<"S","E","L","E","C","T"," ","*"," ","F","R","O","M"," ","(","S","E","L","E","C","T"," ","1",")"," ","x"," ","J","O","I","N"," ","(","S","E","L","E","C","T"," ","1",")"," ","y">>,
       \* dynamic SQL in a single-quoted string
       <<"E","X","E","C","U","T","E"," ","I","M","M","E","D","I","A","T","E"," ","'","S","E","L","E","C","T"," ","*"," ","F","R","O","M"," ","p","r","o","j",".","b","a","d",".","t","'">>,
       \* dynamic SQL in a triple-quoted string, behind a statement
       <<"S","E","L","E","C","T"," ","1",";"," ","e","x","e","c","u","t","e"," ","i","m","m","e","d","i","a","t","e"," ","\"","\"","\"","D","R","O","P"," ","S","C","H","E","M","A"," ","s","\"","\"","\"">>,
       \* dynamic SQL with a comment between the two words
       <<"E","X","E","C","U","T","E"," ","/","*"," ","c"," ","*","/"," ","I","m","m","e","d","i","a","t","e"," ","\"","S","E","L","E","C","T"," ","*"," ","F","R","O","M"," ","p","r","o","j",".","o","k",".","a","\"">>,
       \* IMMEDIATE without EXECUTE
       <<"I","M","M","E","D","I","A","T","E"," ","'","S","E","L","E","C","T"," ","*"," ","F","R","O","M"," ","p","r","o","j",".","b","a","d",".","t","'">>,
       \* a word between EXECUTE and IMMEDIATE
       <<"E","X","E","C","U","T","E"," ","x"," ","I","M","M","E","D","I","A","T","E"," ","'","C","A","L","L"," ","p","(",")","'">>,
       \* dynamic SQL inside a subquery
       <<"S","E","L","E","C","T"," ","*"," ","F","R","O","M"," ","(","E","X","E","C","U","T","E"," ","I","M","M","E","D","I","A","T","E"," ","'","S","E","L","E","C","T"," ","*"," ","F","R","O","M"," ","p","r","o","j",".","b","a","d",".","t","'",")">>,
       \* dynamic SQL whose string holds a subquery
       <<"E","X","E","C","U","T","E"," ","I","M","M","E","D","I","A","T","E"," ","'","'","'","S","E","L","E","C","T"," ","*"," ","F","R","O","M"," ","(","S","E","L","E","C","T"," ","1",")","'","'","'">>,
       \* a table of the default project
       <<"S","E","L","E","C","T"," ","*"," ","F","R","O","M"," ","b","a","d",".","t">>,
       \* a column under the target
       <<"S","E","L","E","C","T"," ","p","r","o","j",".","b","a","d",".","t",".","c","o","l"," ","F","R","O","M"," ","x">>,
       \* the target in upper case
       <<"S","E","L","E","C","T"," ","*"," ","F","R","O","M"," ","P","R","O","J",".","B","a","d",".","T">>,
       \* a table whose name begins with the target
       <<"S","E","L","E","C","T"," ","*"," ","F","R","O","M"," ","p","r","o","j",".","b","a","d",".","t","t">>,
       \* the table name alone
       <<"S","E","L","E","C","T"," ","t"," ","F","R","O","M"," ","t">> }

pcParseSQLPart000 == "parseSQL (part_000)"

\* The target lists the auditor is called with: a table with its project and
\* dataset, and a table name alone.
ScriptTargets == { {sBadT}, {<<"t">>} }

ScriptInit ==
    /\ stackBuffer \in BOOLEAN
    /\ sqlText \in ScriptTexts
    /\ projectID \in {<<>>, pProj}
    /\ validator = {}
    /\ pc \in {pcParseSQL, pcParseSQLPart000, pcAuditor, pcAuditorPart000}
    /\ job = NoJob
    /\ dryRunTableIDSet = {}
    /\ violatingTables \in ScriptTargets
    /\ pc \in {pcParseSQL, pcParseSQLPart000} => violatingTables = {sBadT}
    /\ audit = Auditing(stateNormal, 0, NoScanner)
    /\ parsed = Scanning(<<Frame(sqlText, NewScan({}, {sqlText}, {}), FALSE)>>, NoSub)
    /\ verdict = "none"
    /\ reason = RsnNone

\* Lines 142-452 but 173-175 of part_000: the call after one iteration of the
\* scan loop of the top frame.
IteratedFramesPart000(frames, defaultProjectID) ==
    AfterIteration(frames,
                   ScanStepPart000(Top(frames).runes, defaultProjectID,
                                   Top(frames).inSubquery, Top(frames).c))

ScanIteratedPart000 == IteratedFramesPart000(parsed.frames, projectID)

ScanIterationPart000 ==
    /\ pc = pcParseSQLPart000
    /\ parsed.sub = NoSub
    /\ ~AtSubquery(Top(parsed.frames))
    /\ parsed' = ScanIteratedPart000
    /\ LoopReturns(parsed'.ran)
    /\ UNCHANGED <<sqlText, stackBuffer, projectID, validator, job, dryRunTableIDSet,
                   violatingTables, audit, verdict, reason>>

\* Lines 173-175 of part_000.
CallParseSQLPart000 ==
    /\ pc = pcParseSQLPart000
    /\ parsed.sub = NoSub
    /\ AtSubquery(Top(parsed.frames))
    /\ parsed' = ParseSQLCalled
    /\ UNCHANGED <<sqlText, stackBuffer, projectID, validator, pc, job, dryRunTableIDSet,
                   violatingTables, audit, verdict, reason>>

\* Lines 176-186 of part_000.
ReturnToParseSQLPart000 ==
    /\ pc = pcParseSQLPart000
    /\ parsed.sub # NoSub
    /\ parsed' = ParseSQLReturned
    /\ LoopReturns(parsed'.ran)
    /\ UNCHANGED <<sqlText, stackBuffer, projectID, validator, job, dryRunTableIDSet,
                   violatingTables, audit, verdict, reason>>

ScriptNext ==
    \/ LoopNext
    \/ ScanIterationPart000
    \/ CallParseSQLPart000
    \/ ReturnToParseSQLPart000

ScriptSpec == ScriptInit /\ [][ScriptNext]_vars

\* A table extractor is under way (its frames are in parsed).
ParserRuns == pc \in {pcParseSQL, pcParseSQLPart000}

\* Line 223 (245 in part_000): the iteration of frame f reads an identifier
\* sequence: Normal state, no comment and no string opens here, and a letter,
\* a backtick or an underscore stands at the cursor.
ReadsIdentifier(f) ==
    /\ AtIdentifier(f.runes, f.c.state, f.c.i)
    /\ StringOpening(f.runes, f.c.i).n = 0

\* Line 224 (246): what the scanner of the variant under way returns there.
IdentifierRead(f) ==
    IF pc = pcParseSQLPart000
    THEN parseIdentifierSequencePart000(From(f.runes, f.c.i), RuneSpare(Len(f.runes)))
    ELSE parseIdentifierSequence(From(f.runes, f.c.i))

\* The iteration of frame f reads a single-part identifier that is, in lower
\* case, one of keywords.
ReadsKeywordAs(ident, keywords) ==
    /\ ident.err = NoErr
    /\ Len(ident.parts) = 1
    /\ ToLower(ident.parts[1]) \in keywords

ReadsKeyword(f, keywords) ==
    ReadsIdentifier(f) /\ ReadsKeywordAs(IdentifierRead(f), keywords)

\* The call p has failed with the error e: the parseSQL that just returned
\* hands e to its caller, or TableParser has returned e and no table list.
Fails(p, e) ==
    IF p.ran THEN p.err = e /\ p.tableIDs = {} ELSE p.sub.err = e

\* C21: when parseSQL reads the single-part identifier call (in any letter
\* case) in Normal state, it returns the error 'CALL is not allowed'; every
\* parseSQL that called it returns the same error, and TableParser returns it
\* with no table list.
C21_CallDenied ==
    [][ParserRuns /\ (\/ parsed.sub.err = ErrCall
                      \/ parsed.sub = NoSub
                         /\ ReadsKeyword(Top(parsed.frames), {kwCall}))
          => Fails(parsed', ErrCall)]_vars

\* C21: TableParser has returned the error of a CALL read two subqueries deep.
C21_NestedCallWitness ==
    /\ parsed.ran
    /\ parsed.err = ErrCall
    /\ parsed.tableIDs = {}
    /\ Parentheses(sqlText) >= 2

\* The words of a text in lower case, in order, and its semicolons: what
\* stands in code when the text has no string and no comment.
RECURSIVE WordsFrom(_, _, _, _)
WordsFrom(runes, i, word, words) ==
    IF i >= Len(runes)
    THEN IF word = <<>> THEN words ELSE Append(words, word)
    ELSE IF IsLetter(At(runes, i))
    THEN WordsFrom(runes, i + 1, Append(word, LowerChar(At(runes, i))), words)
    ELSE IF At(runes, i) = ";"
    THEN WordsFrom(runes, i + 1, <<>>,
                   (IF word = <<>> THEN words ELSE Append(words, word)) \o <<<<";">>>>)
    ELSE WordsFrom(runes, i + 1, <<>>,
                   IF word = <<>> THEN words ELSE Append(words, word))

Words(s) == WordsFrom(s, 0, <<>>, <<>>)

EndsWith(words, last) ==
    /\ Len(words) >= Len(last)
    /\ SubSeq(words, Len(words) - Len(last) + 1, Len(words)) = last

\* The token chains that begin the creation of a routine.
CreateChains ==
    {<<verbCreate>>, <<verbCreate, kwOr>>, <<verbCreate, kwOr, kwReplace>>}

\* The iteration of frame f reads PROCEDURE or FUNCTION right behind a chain,
\* or the FUNCTION of TABLE FUNCTION behind a chain.
RoutineFollowsChain(f, before) ==
    \/ /\ ReadsKeyword(f, {kwProcedure, kwFunction})
       /\ \E chain \in CreateChains : EndsWith(before, chain)
    \/ /\ ReadsKeyword(f, {kwFunction})
       /\ \E chain \in CreateChains : EndsWith(before, Append(chain, kwTable))

RoutineCreated(f) == RoutineFollowsChain(f, Words(Slice(f.runes, 0, f.c.i)))

\* C22: when parseSQL reads PROCEDURE, FUNCTION or TABLE FUNCTION behind the
\* tokens CREATE, CREATE OR or CREATE OR REPLACE, it returns the error
\* 'unanalyzable statements', and so does every caller up to TableParser.
C22_RoutineCreationDenied ==
    [][ParserRuns /\ (\/ parsed.sub.err = ErrUnanalyzable
                      \/ parsed.sub = NoSub /\ RoutineCreated(Top(parsed.frames)))
          => Fails(parsed', ErrUnanalyzable)]_vars

\* The words of the statement under way: those behind the last semicolon.
CurrentStatement(words) ==
    LET semicolons == {k \in 1..Len(words) : words[k] = <<";">>}
    IN  SubSeq(words,
               (IF semicolons = {} THEN 0
                ELSE CHOOSE k \in semicolons : \A l \in semicolons : l <= k) + 1,
               Len(words))

DDLVerbs == {verbCreate, verbAlter, verbDrop}

\* On reading SCHEMA or DATASET in frame f, whose statement so far has the
\* words statement, with p the call after the iteration: a DDL statement verb
\* denies; a DDL verb that leads the statement is the statement verb (as it
\* is written, statementVerb being in lower case); a statement without any
\* DDL verb is not denied.
DatasetGate(f, statement, p) ==
    /\ f.c.statementVerb \in DDLVerbs => Fails(p, ErrDatasetLevel)
    /\ statement # <<>> /\ statement[1] \in DDLVerbs
          => f.c.statementVerb = statement[1]
    /\ (\A k \in 1..Len(statement) : statement[k] \notin DDLVerbs)
          => ~Fails(p, ErrDatasetLevel)

\* C23: when parseSQL reads the single-part keyword SCHEMA or DATASET in
\* Normal state and the statement verb is create, alter or drop, it returns
\* the error 'dataset-level operations', and so does every caller up to
\* TableParser; the verb that leads a statement is its statement verb, and
\* behind a ';' a statement without DDL verb that uses these words is not
\* denied.
C23_DatasetLevelDenied ==
    [][ParserRuns =>
         /\ parsed.sub.err = ErrDatasetLevel => Fails(parsed', ErrDatasetLevel)
         /\ parsed.sub = NoSub
            /\ ReadsKeyword(Top(parsed.frames), {kwSchema, kwDataset})
               => DatasetGate(Top(parsed.frames),
                      CurrentStatement(Words(Slice(Top(parsed.frames).runes, 0,
                                                   Top(parsed.frames).c.i))),
                      parsed')]_vars

\* C23: the word schema has been read, and not denied, in a SELECT statement
\* that stands behind a DDL statement and a semicolon.
C23_AfterSemicolonWitness ==
    /\ ParserRuns
    /\ Len(parsed.frames) = 1
    /\ Top(parsed.frames).c.lastToken = kwSchema
    /\ Top(parsed.frames).c.statementVerb = verbSelect
    /\ Words(Slice(sqlText, 0, Top(parsed.frames).c.i))[1] = verbAlter

\* The pieces of a text between blanks and commas.
RECURSIVE PiecesFrom(_, _, _)
PiecesFrom(s, i, piece) ==
    IF i >= Len(s) THEN {piece}
    ELSE IF At(s, i) \in {" ", ","} THEN {piece} \cup PiecesFrom(s, i + 1, <<>>)
    ELSE PiecesFrom(s, i + 1, Append(piece, At(s, i)))

sSelectFrom == <<"S","E","L","E","C","T"," ","*"," ","F","R","O","M"," ">>

\* A text that is SELECT * FROM and a comma-separated list of table names,
\* each with or without an alias.
IsCommaList(s) ==
    /\ HasPrefix(s, sSelectFrom)
    /\ \E i \in 1..Len(s) : s[i] = ","
    /\ \A i \in 1..Len(s) : s[i] \notin {"(", ";", "'"}

\* The table names of such a list (the pieces with a dot in them), and the
\* table a name stands for.
ListedNames(s) ==
    {piece \in PiecesFrom(s, Len(sSelectFrom), <<>>) :
        \E i \in 1..Len(piece) : piece[i] = "."}

ListedTable(name, defaultProjectID) ==
    IF Len(Split(name)) = 2 THEN defaultProjectID \o <<".">> \o name ELSE name

\* C24: for a comma-separated list of multi-part table names behind FROM,
\* each with or without an alias (two-part names with a default project),
\* TableParser returns no error and every table of the list.
C24_CommaListReturned ==
    parsed.ran /\ IsCommaList(sqlText)
      /\ (projectID = <<>> => \A name \in ListedNames(sqlText) : Len(Split(name)) = 3)
      => /\ parsed.err = NoErr
         /\ \A name \in ListedNames(sqlText) :
               ListedTable(name, projectID) \in parsed.tableIDs

\* Lines 262-270 (291-299 in part_000): the identifier ident is a known alias
\* by the aliases registered before it is read.
KnownBefore(aliases, ident) ==
    \/ ToLower(Join(ident.parts)) \in aliases
    \/ Len(ident.parts) > 1 /\ ToLower(ident.parts[1]) \in aliases

\* Frame f reads, in a table position, an identifier that is a known alias.
ReadsKnownAlias(f, ident) ==
    /\ f.c.expectingTable
    /\ ident.err = NoErr
    /\ ident.consumed > 0
    /\ KnownBefore(f.c.aliases, ident)

\* The table set of the call as it stands: what TableParser returned, what a
\* nested parseSQL hands back, or the set in the hands of the top frame.
TableSet(p) ==
    IF p.ran THEN p.tableIDs
    ELSE IF p.sub # NoSub THEN p.sub.tableIDSet
    ELSE Top(p.frames).c.tableIDSet

sFromAAsX == <<"F","R","O","M"," ","p","r","o","j",".","o","k",".","a"," ","A","S"," ","x">>
sWithTSelectFrom == <<"W","I","T","H"," ","t"," ","A","S"," ","(","S","E","L","E","C","T"," ","1",")"," ","S","E","L","E","C","T"," ","*"," ","F","R","O","M"," ">>

\* The text declares the alias x by FROM proj.ok.a AS x; a table ID that
\* stands for a name under x (x.c, or x.c in the default project).
DeclaresAliasX(s) == IndexFrom(s, 0, sFromAAsX) # -1
UnderX(id) ==
    \/ HasPrefix(id, <<"x",".">>)
    \/ Len(Split(id)) = 3 /\ Split(id)[2] = <<"x">>

\* The text is WITH t AS (SELECT 1) SELECT * FROM and a name whose first or
\* last part is the CTE name t.
ReferencesCTE(s) ==
    /\ HasPrefix(s, sWithTSelectFrom)
    /\ LET name == Split(From(s, Len(sWithTSelectFrom)))
       IN  name[1] = <<"t">> \/ name[Len(name)] = <<"t">>

\* C25: an identifier read in a table position whose lowercased full name, or
\* whose lowercased first part, is a registered CTE name or alias is not
\* added to the table set; behind FROM proj.ok.a AS x no name under x is ever
\* in the table set; behind WITH t AS (...) a later FROM t, FROM a.t or
\* FROM t.x yields no table.
C25_KnownAliasNotEmitted ==
    /\ [][ParserRuns /\ parsed.sub = NoSub
             /\ Len(parsed'.frames) = Len(parsed.frames)
             /\ ReadsIdentifier(Top(parsed.frames))
             /\ ReadsKnownAlias(Top(parsed.frames), IdentifierRead(Top(parsed.frames)))
           => TableSet(parsed') = TableSet(parsed)]_vars
    /\ [](DeclaresAliasX(sqlText) /\ (ParserRuns \/ parsed.ran)
           => \A id \in TableSet(parsed) : ~UnderX(id))
    /\ [](parsed.ran /\ ReferencesCTE(sqlText) => parsed.tableIDs = {})

\* Line 172 (193 in part_000): the iteration of frame f stands at a semicolon
\* in Normal state.
AtSemicolon(f) ==
    /\ f.c.i < Len(f.runes)
    /\ f.c.state = stateNormal
    /\ At(f.runes, f.c.i) = ";"

\* The locals g are the locals c after a semicolon: statement verb, last
\* token and the three flags reset, alias set and table set as they were.
ResetBySemicolon(c, g) ==
    /\ g.statementVerb = <<>>
    /\ g.lastToken = <<>>
    /\ ~g.expectingTable /\ ~g.expectingAlias /\ ~g.expectingCTE
    /\ g.aliases = c.aliases
    /\ g.tableIDSet = c.tableIDSet
    /\ g.i = c.i + 1

\* The alias set of the call as it stands.
AliasSet(p) ==
    IF p.sub # NoSub THEN p.sub.aliases ELSE Top(p.frames).c.aliases

\* C26: a ';' read in Normal state resets statementVerb, lastToken,
\* expectingTable, expectingAlias and expectingCTE and leaves the alias set
\* and the table set as they are. No step whatever takes a name out of the
\* alias set while the call goes on, and TableParser returns no table ID that
\* has a registered alias as a dot-suffix: a CTE or alias defined before a
\* ';' suppresses the same name in every later statement.
C26_SemicolonKeepsAliases ==
    [][ParserRuns =>
         /\ parsed.sub = NoSub /\ AtSemicolon(Top(parsed.frames))
               => /\ Len(parsed'.frames) = Len(parsed.frames)
                  /\ ResetBySemicolon(Top(parsed.frames).c, Top(parsed'.frames).c)
         /\ (~parsed'.ran /\ parsed'.sub.err = NoErr)
               => AliasSet(parsed) \subseteq AliasSet(parsed')
         /\ parsed'.ran
               => \A id \in parsed'.tableIDs : ~HasAliasSuffix(id, AliasSet(parsed))]_vars

\* C26: in a statement behind a semicolon, a name under an alias that an
\* earlier statement defined is read in a table position.
C26_LaterStatementWitness ==
    /\ ParserRuns
    /\ parsed.sub = NoSub
    /\ ReadsIdentifier(Top(parsed.frames))
    /\ ReadsKnownAlias(Top(parsed.frames), IdentifierRead(Top(parsed.frames)))
    /\ <<";">> \in {Words(Slice(sqlText, 0, Top(parsed.frames).c.i))[k] :
                      k \in 1..Len(Words(Slice(sqlText, 0, Top(parsed.frames).c.i)))}
    /\ Top(parsed.frames).c.statementVerb # <<>>

\* The position of the parenthesis that closes the one at position open of
\* runes, by counting depth from there; -1 when there is none. It is the
\* matching parenthesis of a text that has no parenthesis inside a string or
\* a comment.
RECURSIVE ClosingFrom(_, _, _)
ClosingFrom(runes, i, depth) ==
    IF i >= Len(runes) THEN -1
    ELSE IF At(runes, i) = "(" THEN ClosingFrom(runes, i + 1, depth + 1)
    ELSE IF At(runes, i) = ")"
         THEN IF depth = 1 THEN i ELSE ClosingFrom(runes, i + 1, depth - 1)
    ELSE ClosingFrom(runes, i + 1, depth)

MatchingParenthesis(runes, open) == ClosingFrom(runes, open, 0)

\* C27: a nested parse that returns with success to the iteration that
\* started it at an opening parenthesis has returned at the parenthesis that
\* matches that one, and its consumed count reaches through it.
C27_ReturnsAtMatchingParenthesis ==
    (ParserRuns /\ parsed.sub # NoSub /\ parsed.sub.err = NoErr)
       => Top(parsed.frames).c.i + parsed.sub.consumed
             = MatchingParenthesis(Top(parsed.frames).runes, Top(parsed.frames).c.i)

\* Line 120 (142 in part_000): the scan loop of frame f has reached the end
\* of its input.
AtEndOfInput(f) == f.c.i >= Len(f.runes)

\* What the iteration of frame f returns, in the variant that runs.
IterationResult(f) ==
    IF pc = pcParseSQLPart000
    THEN ScanStepPart000(f.runes, projectID, f.inSubquery, f.c).result
    ELSE ScanStep(f.runes, projectID, f.inSubquery, f.c).result

\* C28: a nested parse that reaches the end of its input fails with
\* "unclosed subquery parenthesis"; a call that is handed that failure by the
\* nested parse it started fails with it too, and TableParser returns it
\* with no table list. The top-level parse that reaches the end of its input
\* returns the length of the input and no error.
C28_UnclosedSubqueryFails ==
    [][ParserRuns =>
         /\ (parsed.sub = NoSub /\ AtEndOfInput(Top(parsed.frames))
                /\ Top(parsed.frames).inSubquery)
               => Fails(parsed', ErrUnclosedSubquery)
         /\ parsed.sub.err = ErrUnclosedSubquery
               => Fails(parsed', ErrUnclosedSubquery)
         /\ (parsed.sub = NoSub /\ AtEndOfInput(Top(parsed.frames))
                /\ ~Top(parsed.frames).inSubquery)
               => /\ parsed'.ran /\ parsed'.err = NoErr
                  /\ IterationResult(Top(parsed.frames)).consumed
                        = Len(Top(parsed.frames).runes)
                  /\ Len(Top(parsed.frames).runes) = Len(sqlText)]_vars

\* C28: the failure of a nested parse is with a call that is nested itself.
C28_PropagatingWitness ==
    /\ ParserRuns
    /\ parsed.sub.err = ErrUnclosedSubquery
    /\ Len(parsed.frames) >= 2
    /\ Top(parsed.frames).inSubquery

\* The string/comment state of the call as it stands.
ParserState(p) == Top(p.frames).c.state

\* C29: no successful scan ends while a string or a comment is open: the
\* auditor that has returned without error is in Normal state, and the
\* iteration after which TableParser returns without error began in Normal
\* state.
C29_ScansEndInNormal ==
    /\ []((audit.ran /\ audit.err = NoErr) => audit.state = stateNormal)
    /\ [][(ParserRuns /\ parsed'.ran /\ parsed'.err = NoErr)
            => ParserState(parsed) = stateNormal]_vars

\* The cursor of the auditor never stands at a position.
NotVisited == "not visited"

\* The state in which the auditor's loop (lines 481-637; 529-682 in part_000)
\* begins the iteration at position target of runes, having come to position
\* i in state; NotVisited when its cursor passes over target or it returns
\* before.
RECURSIVE AuditorStateFrom(_, _, _, _, _, _)
AuditorStateAfter(runes, defaultProjectID, targets, target, step, part000) ==
    IF step.done THEN NotVisited
    ELSE AuditorStateFrom(runes, defaultProjectID, targets, target,
                          [state |-> step.state, i |-> step.i], part000)

AuditorStateFrom(runes, defaultProjectID, targets, target, at, part000) ==
    IF at.i = target THEN at.state
    ELSE IF at.i > target THEN NotVisited
    ELSE AuditorStateAfter(runes, defaultProjectID, targets, target,
                           IF part000
                           THEN AuditStepPart000(runes, defaultProjectID, targets,
                                                 at.state, at.i)
                           ELSE AuditStep(runes, defaultProjectID, targets,
                                          at.state, at.i),
                           part000)

\* The state of the auditor of the parser's file at position target of the
\* text of the call.
AuditorStateAt(target) ==
    AuditorStateFrom(sqlText, projectID, LowerTargets(violatingTables), target,
                     [state |-> stateNormal, i |-> 0], pc = pcParseSQLPart000)

\* The position in the text of the call at which frame f stands: a nested
\* parse reads a suffix of the text.
PositionInText(f) == Len(sqlText) - Len(f.runes) + f.c.i

\* A position read in state is inside a string or a comment.
InsideStringOrComment(state) == state # stateNormal

\* C30: the auditor and the table parser classify every position alike: at
\* every position at which both begin an iteration, both are inside a string
\* or comment or both are outside.
C30_SameClassification ==
    (ParserRuns /\ parsed.sub = NoSub
       /\ AuditorStateAt(PositionInText(Top(parsed.frames))) # NotVisited)
       => (InsideStringOrComment(AuditorStateAt(PositionInText(Top(parsed.frames))))
             <=> InsideStringOrComment(ParserState(parsed)))

(***************************************************************************)
(* Spellings of one dotted name. parseIdentifierSequence, TableParser and  *)
(* IsAnyTableExplicitlyReferenced of both files are called, each by        *)
(* itself, on a name that is written plain or in backticks, with white     *)
(* space or a comment before it, behind its parts or behind its dots.      *)
(* sqlText is the spelling, parsed the result of the scanner or of         *)
(* TableParser, audit the result of the auditor.                           *)
(***************************************************************************)
Gaps ==
    { <<" ">>,
      <<"/","*","c","*","/">>,
      <<"-","-","c","\n">>,
      <<" ","-","-","c","\n">>,
      <<"#","c","\n">>,
      <<"/","*",EAcute,"*","/">> }

GapPlaces == {"before the name", "behind the parts", "behind the dots", "around the dots"}

Quotings == {"plain", "whole", "each", "prefix"}

SpelledNames ==
    { << <<"a">>, <<"b">> >>,
      << pProj, dBad, <<"t">> >>,
      << <<EAcute>>, <<"b">> >>,
      << <<EAcute, EAcute>>, <<"b">> >> }

\* What stands behind the name: nothing, or an alias.
SpelledRests == { <<>>, <<" ","x">> }

Spellings ==
    { sp \in [parts : SpelledNames, quoting : Quotings, gap : Gaps \cup {<<>>},
              place : GapPlaces \cup {"nowhere"}, rest : SpelledRests] :
        /\ sp.gap = <<>> <=> sp.place = "nowhere"
        /\ sp.quoting = "whole" => sp.place \in {"nowhere", "before the name"} }

\* The text between two parts: the dot, and the gap where the spelling has it.
SpelledDot(sp) ==
    (IF sp.place \in {"behind the parts", "around the dots"} THEN sp.gap ELSE <<>>)
    \o <<".">>
    \o (IF sp.place \in {"behind the dots", "around the dots"} THEN sp.gap ELSE <<>>)

\* The pieces the name is written in: each part, all parts in one, or all
\* parts but the last in one.
SpelledPieces(sp) ==
    IF sp.quoting = "plain" THEN sp.parts
    ELSE IF sp.quoting = "each" THEN [k \in 1..Len(sp.parts) |-> Quote(sp.parts[k])]
    ELSE IF sp.quoting = "whole" THEN << Quote(Join(sp.parts)) >>
    ELSE << Quote(Join(SubSeq(sp.parts, 1, Len(sp.parts) - 1))),
            sp.parts[Len(sp.parts)] >>

\* The name as the spelling writes it, and with what follows it.
SpelledName(sp) ==
    (IF sp.place = "before the name" THEN sp.gap ELSE <<>>)
    \o JoinWith(SpelledPieces(sp), SpelledDot(sp))
SpelledText(sp) == SpelledName(sp) \o sp.rest

\* The plain spelling of the same name: no backtick, no gap.
PlainSpelling(sp) ==
    [sp EXCEPT !.quoting = "plain", !.gap = <<>>, !.place = "nowhere"]

\* The statement TableParser and the auditor are given.
SpelledStatement(sp) == sSelectFrom \o SpelledText(sp)

pcScanner == "parseIdentifierSequence"
pcScannerPart000 == "parseIdentifierSequence (part_000)"
pcTableParserPart000 == "TableParser (part_000)"

\* parts, consumed, err := parseIdentifierSequence(s)
Identified(r) ==
    [ran |-> TRUE, found |-> FALSE, tableIDs |-> {}, err |-> r.err,
     parts |-> r.parts, consumed |-> r.consumed]

SpellingInit ==
    /\ stackBuffer \in BOOLEAN
    /\ sqlText \in Spellings
    /\ projectID \in {<<>>, pProj}
    /\ validator = {}
    /\ pc \in {pcScanner, pcScannerPart000, pcTableParser, pcTableParserPart000,
               pcAuditor, pcAuditorPart000}
    /\ job = NoJob
    /\ dryRunTableIDSet = {}
    /\ violatingTables = {sBadT}
    /\ audit = NotRun
    /\ parsed = NotRun
    /\ verdict = "none"
    /\ reason = RsnNone

CallScannerOnSpelling ==
    /\ pc = pcScanner /\ ~parsed.ran
    /\ parsed' = Identified(parseIdentifierSequence(SpelledText(sqlText)))
    /\ UNCHANGED <<sqlText, stackBuffer, projectID, validator, pc, job, dryRunTableIDSet,
                   violatingTables, audit, verdict, reason>>

CallScannerOnSpellingPart000 ==
    /\ pc = pcScannerPart000 /\ ~parsed.ran
    /\ parsed' = Identified(parseIdentifierSequencePart000(SpelledText(sqlText),
                                                       RuneSpare(Len(SpelledText(sqlText)))))
    /\ UNCHANGED <<sqlText, stackBuffer, projectID, validator, pc, job, dryRunTableIDSet,
                   violatingTables, audit, verdict, reason>>

CallTableParserOnSpelling ==
    /\ pc = pcTableParser /\ ~parsed.ran
    /\ parsed' = Parsed(TableParser(SpelledStatement(sqlText), projectID))
    /\ UNCHANGED <<sqlText, stackBuffer, projectID, validator, pc, job, dryRunTableIDSet,
                   violatingTables, audit, verdict, reason>>

CallTableParserOnSpellingPart000 ==
    /\ pc = pcTableParserPart000 /\ ~parsed.ran
    /\ parsed' = Parsed(TableParserPart000(SpelledStatement(sqlText), projectID))
    /\ UNCHANGED <<sqlText, stackBuffer, projectID, validator, pc, job, dryRunTableIDSet,
                   violatingTables, audit, verdict, reason>>

CallAuditorOnSpelling ==
    /\ pc = pcAuditor /\ ~audit.ran
    /\ audit' = Audited(IsAnyTableExplicitlyReferenced(
                            SpelledStatement(sqlText), projectID, violatingTables))
    /\ UNCHANGED <<sqlText, stackBuffer, projectID, validator, pc, job, dryRunTableIDSet,
                   violatingTables, parsed, verdict, reason>>

CallAuditorOnSpellingPart000 ==
    /\ pc = pcAuditorPart000 /\ ~audit.ran
    /\ audit' = Audited(IsAnyTableExplicitlyReferencedPart000(
                            SpelledStatement(sqlText), projectID, violatingTables))
    /\ UNCHANGED <<sqlText, stackBuffer, projectID, validator, pc, job, dryRunTableIDSet,
                   violatingTables, parsed, verdict, reason>>

SpellingNext ==
    \/ CallScannerOnSpelling
    \/ CallScannerOnSpellingPart000
    \/ CallTableParserOnSpelling
    \/ CallTableParserOnSpellingPart000
    \/ CallAuditorOnSpelling
    \/ CallAuditorOnSpellingPart000

SpellingSpec == SpellingInit /\ [][SpellingNext]_vars

\* The spelling has a gap of white space or of a comment in ASCII, and no
\* backtick.
PlainWithGap(sp) ==
    /\ sp.quoting = "plain"
    /\ sp.place # "nowhere"
    /\ \A k \in 1..Len(sp.gap) : sp.gap[k] # EAcute

\* What the function of pc returns on the plain spelling of the name.
OnPlainSpelling ==
    IF pc = pcScanner
    THEN Identified(parseIdentifierSequence(SpelledText(PlainSpelling(sqlText))))
    ELSE IF pc = pcScannerPart000
    THEN Identified(parseIdentifierSequencePart000(
                        SpelledText(PlainSpelling(sqlText)),
                        RuneSpare(Len(SpelledText(PlainSpelling(sqlText))))))
    ELSE IF pc = pcTableParser
    THEN Parsed(TableParser(SpelledStatement(PlainSpelling(sqlText)), projectID))
    ELSE IF pc = pcTableParserPart000
    THEN Parsed(TableParserPart000(SpelledStatement(PlainSpelling(sqlText)), projectID))
    ELSE IF pc = pcAuditor
    THEN Audited(IsAnyTableExplicitlyReferenced(
                     SpelledStatement(PlainSpelling(sqlText)), projectID,
                     violatingTables))
    ELSE Audited(IsAnyTableExplicitlyReferencedPart000(
                     SpelledStatement(PlainSpelling(sqlText)), projectID,
                     violatingTables))

\* C31: white space or a comment before the name, behind a part or behind a
\* dot does not change the parts parseIdentifierSequence yields: they are the
\* parts of the name; and TableParser and the auditor return on the statement
\* what they return on the statement with the name written without the gap.
C31_GapsKeepTheParts ==
    PlainWithGap(sqlText) =>
        /\ (parsed.ran /\ pc \in {pcScanner, pcScannerPart000})
              => (parsed.err = NoErr /\ parsed.parts = sqlText.parts)
        /\ (parsed.ran /\ pc \in {pcTableParser, pcTableParserPart000})
              => parsed = OnPlainSpelling
        /\ audit.ran => audit = OnPlainSpelling

\* The code points the scanner of pc has to consume on a spelling without
\* gap: the name, and in part_000 the white space behind it as well.
CodePointsOfName(sp) ==
    Len(SpelledName(sp))
    + (IF pc = pcScannerPart000 /\ sp.rest # <<>> THEN 1 ELSE 0)

\* C32: parseIdentifierSequence does not panic, the count it returns is a
\* number of code points that never exceeds the length of its input, and on
\* a name without gap, in backticks or not and with a letter of two bytes or
\* not, the count reaches to the end of the name and the parts are the texts
\* between the backticks, split at the dots.
C32_ConsumedCountsCodePoints ==
    (parsed.ran /\ pc \in {pcScanner, pcScannerPart000}) =>
        /\ parsed.err = NoErr
        /\ parsed.consumed <= Len(SpelledText(sqlText))
        /\ sqlText.place = "nowhere" =>
              /\ parsed.consumed = CodePointsOfName(sqlText)
              /\ parsed.parts = sqlText.parts

\* The name of the spelling is written in backticks, and without gap.
InBackticks(sp) == sp.quoting # "plain" /\ sp.place = "nowhere"

\* C33: backticks do not change what is recognized. Whether the name is in
\* backticks as a whole, part by part or all but its last part, the scanner
\* yields the parts of the name, and TableParser and the auditor return what
\* they return for the statement with the name written without backticks.
C33_BackticksKeepTheName ==
    InBackticks(sqlText) =>
        /\ (parsed.ran /\ pc \in {pcScanner, pcScannerPart000})
              => (parsed.err = NoErr /\ parsed.parts = sqlText.parts)
        /\ (parsed.ran /\ pc \in {pcTableParser, pcTableParserPart000})
              => parsed = OnPlainSpelling
        /\ audit.ran => audit = OnPlainSpelling

\* The locals g are the locals c after a context-exit keyword: no table and
\* no alias is expected, no table keyword is remembered, and the keyword has
\* not become an alias where an alias was expected.
ContextExited(c, g) ==
    /\ ~g.expectingTable
    /\ g.lastTableKeyword = <<>>
    /\ ~g.expectingAlias
    /\ (c.expectingAlias /\ ~c.expectingCTE) => g.aliases = c.aliases

\* C34: reading one of the twelve context-exit keywords where, group, order,
\* having, limit, window, union, intersect, except, on, set and when as a
\* single-part identifier in Normal state clears expectingTable,
\* lastTableKeyword and expectingAlias, and does not register the keyword as
\* an alias when an alias was expected.
C34_ExitKeywordClearsContext ==
    [][(/\ ParserRuns
        /\ parsed.sub = NoSub
        /\ ReadsKeyword(Top(parsed.frames), tableContextExitKeywordsPart000))
          => /\ ~parsed'.ran
             /\ Len(parsed'.frames) = Len(parsed.frames)
             /\ ContextExited(Top(parsed.frames).c, Top(parsed'.frames).c)]_vars

\* Line 141 (163 in part_000): the iteration of frame f stands at a comma in
\* Normal state.
AtComma(f) ==
    /\ f.c.i < Len(f.runes)
    /\ f.c.state = stateNormal
    /\ At(f.runes, f.c.i) = ","

\* C35: when statementVerb is "with", the DML or DDL verb read next replaces
\* it; and a comma read under a statement verb other than "with" does not
\* set expectingCTE, so that the identifier behind it is not registered as
\* the name of a CTE.
C35_VerbReplacesWith ==
    [][(ParserRuns /\ parsed.sub = NoSub) =>
         /\ (/\ Top(parsed.frames).c.statementVerb = kwWith
             /\ ReadsKeyword(Top(parsed.frames), StatementVerbs))
               => /\ ~parsed'.ran
                  /\ Len(parsed'.frames) = Len(parsed.frames)
                  /\ Top(parsed'.frames).c.statementVerb
                        = ToLower(IdentifierRead(Top(parsed.frames)).parts[1])
         /\ (/\ AtComma(Top(parsed.frames))
             /\ Top(parsed.frames).c.statementVerb # kwWith)
               => /\ ~parsed'.ran
                  /\ Top(parsed'.frames).c.expectingCTE
                        = Top(parsed.frames).c.expectingCTE]_vars

AuditorRuns == pc \in {pcAuditor, pcAuditorPart000}

\* Line 504 (547 in part_000): what the round of parseIdentifierSequence
\* under way in the auditor ends in.
RoundOfAuditor ==
    IF pc = pcAuditorPart000
    THEN IdentRoundPart000(From(sqlText, audit.i), audit.scanner.totalConsumed,
                           audit.scanner.parts, RuneSpare(Len(sqlText)))
    ELSE IdentRound(From(sqlText, audit.i), audit.scanner.totalConsumed,
                    audit.scanner.parts)

\* fullID is a target or a target and a dot and more, as written or behind
\* the default project and a dot.
NamesTarget(fullID, defaultProjectID, targets) ==
    \E target \in targets :
        \/ IsOrQualifies(fullID, target)
        \/ /\ defaultProjectID # <<>>
           /\ IsOrQualifies(ToLower(defaultProjectID) \o <<".">> \o fullID, target)

\* The auditor is about to be handed an identifier sequence of at least two
\* parts that names a target.
ReadsTarget ==
    /\ audit.scanner.on
    /\ RoundOfAuditor.done
    /\ RoundOfAuditor.err = NoErr
    /\ Len(RoundOfAuditor.parts) >= 2
    /\ NamesTarget(ToLower(Join(RoundOfAuditor.parts)), projectID,
                   LowerTargets(violatingTables))

\* C36: IsAnyTableExplicitlyReferenced returns true exactly when it has read
\* an identifier sequence of at least two parts that, lowercased and joined
\* by dots, is a lowercased target or a target followed by a dot, as written
\* or behind the default project; and it returns false only at the end of
\* the text or on an error of the scanner.
C36_TrueIffTargetRead ==
    [][AuditorRuns =>
         /\ (audit'.ran /\ audit'.found) <=> ReadsTarget
         /\ (audit'.ran /\ ~audit'.found /\ audit'.err = NoErr)
               => (~audit.scanner.on /\ audit.i >= Len(sqlText))]_vars

(***************************************************************************)
(* The order of map iteration. ValidateQueryAgainstAllowedDatasets ranges  *)
(* over the map of the dry run's table IDs to build the list of violating  *)
(* tables, and TableParser ranges over its map of table IDs to build the   *)
(* list it returns; Go hands out the keys of a map in an order that may    *)
(* differ from run to run. Here each list is kept as a list, built in any  *)
(* of the orders, and the error records the dataset its message names.     *)
(***************************************************************************)
OrderTexts ==
    { \* SELECT * FROM proj.ok.a, proj.bad.t
      <<"S","E","L","E","C","T"," ","*"," ","F","R","O","M"," ","p","r","o","j",".","o","k",".","a",","," ","p","r","o","j",".","b","a","d",".","t">>,
      \* SELECT * FROM proj.bad.t
      <<"S","E","L","E","C","T"," ","*"," ","F","R","O","M"," ","p","r","o","j",".","b","a","d",".","t">>,
      \* SELECT * FROM ok.a JOIN bad.t
      <<"S","E","L","E","C","T"," ","*"," ","F","R","O","M"," ","o","k",".","a"," ","J","O","I","N"," ","b","a","d",".","t">>,
      \* SELECT * FROM proj.ok.a x, x.bad.t
      <<"S","E","L","E","C","T"," ","*"," ","F","R","O","M"," ","p","r","o","j",".","o","k",".","a"," ","x",","," ","x",".","b","a","d",".","t">>,
      \* SELECT 1
      <<"S","E","L","E","C","T"," ","1">>,
      \* SELECT * FROM (SELECT 1
      <<"S","E","L","E","C","T"," ","*"," ","F","R","O","M"," ","(","S","E","L","E","C","T"," ","1">> }

\* audit and parsed with the dataset the error message names, and parsed
\* with the list TableParser returned.
AuditedNaming(r, dataset) ==
    [ran |-> TRUE, found |-> r.found, tableIDs |-> {}, err |-> r.err, named |-> dataset]
ParsedNaming(r, list, dataset) ==
    [ran |-> TRUE, found |-> FALSE, tableIDs |-> r.tableIDs, err |-> r.err,
     list |-> list, named |-> dataset]

\* strings.Join(strings.Split(tableID, ".")[:2], "."), and parts[0] "." parts[1].
NamedDataset(tableID) == Split(tableID)[1] \o <<".">> \o Split(tableID)[2]

\* Lines 111-119: the violating tables in the order the map is ranged over.
ViolatingInOrder(order, allowList) ==
    SelectSeq(order, LAMBDA tableID : IsViolation(tableID, allowList))

\* A loop that tests the first table of the list only: C38 fails of it.
FirstRejectedAtHead(list, allowList) ==
    IF Len(list) > 0 /\ IsViolation(list[1], allowList) THEN 1 ELSE 0

\* Lines 142-149: the place in the list of the table the loop returns the
\* error at, 0 when the loop ends without one.
FirstRejected(list, allowList) ==
    LET hits == {k \in 1..Len(list) : IsViolation(list[k], allowList)}
    IN  IF hits = {} THEN 0 ELSE CHOOSE k \in hits : \A j \in hits : k <= j

OrderInit ==
    /\ stackBuffer \in BOOLEAN
    /\ sqlText \in OrderTexts
    /\ projectID \in {<<>>, pProj}
    /\ validator \in {{}, {<<pProj, dOk>>}, {<<pProj, dBad>>}}
    /\ pc = "dry run"
    /\ job = NoJob
    /\ dryRunTableIDSet = {}
    /\ violatingTables = <<>>
    /\ audit = NotRun
    /\ parsed = NotRun
    /\ verdict = "none"
    /\ reason = RsnNone

\* Lines 96-123.
CollectInOrder ==
    /\ pc = "collect"
    /\ LET ids == CollectTableIDs(job.query)
       IN  \E order \in RangeOrders(ids) :
            /\ dryRunTableIDSet' = ids
            /\ violatingTables' = ViolatingInOrder(order, validator)
            /\ IF ids # {} /\ Len(violatingTables') = 0 THEN ReturnJob ELSE GoOn("audit")
    /\ UNCHANGED <<sqlText, stackBuffer, projectID, validator, job, audit, parsed>>

\* Lines 126-134.
AuditInOrder ==
    /\ pc = "audit"
    /\ IF Len(violatingTables) > 0
       THEN /\ audit' = AuditedNaming(
                            IsAnyTableExplicitlyReferenced(
                                sqlText, projectID,
                                {violatingTables[k] : k \in 1..Len(violatingTables)}),
                            NamedDataset(violatingTables[1]))
            /\ IF audit'.err = ErrPanic THEN Panics
               ELSE IF audit'.err # NoErr THEN ReturnError(RsnAuditFailed)
               ELSE IF audit'.found THEN ReturnError(RsnAccessDenied)
               ELSE GoOn("fallback")
       ELSE audit' = audit /\ GoOn("fallback")
    /\ UNCHANGED <<sqlText, stackBuffer, projectID, validator, job, dryRunTableIDSet, violatingTables, parsed>>

\* Lines 137-151, with lines 91-103 of TableParser: the list is built in the
\* order the map of table IDs is ranged over.
ParseInOrder ==
    /\ pc = "fallback"
    /\ LET r == TableParser(sqlText, projectID)
       IN  \E list \in RangeOrders(r.tableIDs) :
            LET k == FirstRejected(list, validator)
            IN  /\ parsed' = ParsedNaming(r, list,
                                 IF k = 0 THEN <<>> ELSE NamedDataset(list[k]))
                /\ IF r.err = ErrPanic THEN Panics
                   ELSE IF r.err # NoErr THEN ReturnError(RsnParseFailed)
                   ELSE IF k # 0 THEN ReturnError(RsnAccessDenied)
                   ELSE ReturnJob
    /\ UNCHANGED <<sqlText, stackBuffer, projectID, validator, job, dryRunTableIDSet, violatingTables, audit>>

OrderNext ==
    \/ DryRunQuery
    \/ StatementTypeGate
    \/ CollectInOrder
    \/ AuditInOrder
    \/ ParseInOrder

OrderSpec == OrderInit /\ [][OrderNext]_vars

\* What the call returns as a function of its inputs alone, with the table
\* sets taken as sets: the reason of the error, RsnNone for the job.
ReasonOfInputs ==
    IF job.failed THEN RsnDryRunFailed
    ELSE IF ~job.hasStatistics THEN RsnNoStatistics
    ELSE IF job.query.statementType \in SchemaTypes THEN RsnDatasetLevel
    ELSE IF job.query.statementType \in RoutineTypes THEN RsnRoutine
    ELSE IF job.query.statementType \in CallTypes THEN RsnCall
    ELSE LET ids == CollectTableIDs(job.query)
             violating == {id \in ids : IsViolation(id, validator)}
             explicit == IsAnyTableExplicitlyReferenced(sqlText, projectID, violating)
         IN  IF ids # {} /\ violating = {} THEN RsnNone
             ELSE IF violating # {} /\ explicit.err # NoErr THEN RsnAuditFailed
             ELSE IF violating # {} /\ explicit.found THEN RsnAccessDenied
             ELSE FallbackReason(TableParser(sqlText, projectID), validator)

\* C38: for given SQL text, project, dry-run result and allow-list, whether
\* the call returns the job or an error, and which error, is the same
\* whatever order the maps are ranged over, and the list TableParser
\* returns holds each ID of the same set once; only the order of the list
\* and the dataset the message names depend on the order.
C38_VerdictIndependentOfOrder ==
    /\ Returned =>
        /\ reason = ReasonOfInputs
        /\ verdict = (IF ReasonOfInputs = RsnNone THEN "job" ELSE "error")
    /\ (parsed.ran /\ parsed.err = NoErr) =>
        /\ {parsed.list[k] : k \in 1..Len(parsed.list)}
              = TableParser(sqlText, projectID).tableIDs
        /\ Len(parsed.list) = Cardinality(TableParser(sqlText, projectID).tableIDs)

\* A call refused at the fallback whose list holds a table of another
\* rejected dataset than the one the message names: ranged over in another
\* order, the message names that dataset.
C38_OtherDatasetWitness ==
    /\ Returned /\ verdict = "error" /\ reason = RsnAccessDenied
    /\ parsed.ran /\ parsed.err = NoErr
    /\ \E k \in 1..Len(parsed.list) :
        /\ IsViolation(parsed.list[k], validator)
        /\ NamedDataset(parsed.list[k]) # parsed.named

\* The texts parseSQL may be invoked on when no string is expanded: the text
\* of the call, and each of its suffixes behind an opening parenthesis.
TopLevelOrBehindParenthesis(sql) ==
    {sql} \cup {From(sql, k) : k \in {j \in 1..Len(sql) : sql[j] = "("}}

\* The iteration of the top frame reads the keyword immediate (in any letter
\* case, first part of the identifier sequence) with lastToken execute.
ReadsImmediateBehindExecute(f) ==
    /\ ReadsIdentifier(f)
    /\ IdentifierRead(f).err = NoErr
    /\ IdentifierRead(f).consumed > 0
    /\ ToLower(IdentifierRead(f).parts[1]) = kwImmediate
    /\ f.c.lastToken = kwExecute

\* C39: in the variant with the dynamic-SQL expansion (part_000), whenever
\* the keyword immediate is read with lastToken execute, parseSQL returns
\* the EXECUTE IMMEDIATE error in that iteration, no text enters the visited
\* set there, and every text parseSQL is ever invoked on (every frame's text
\* and every visited text) is the text of the call or a suffix of it behind
\* an opening parenthesis: no content of a string literal is parsed as SQL.
C39_ExpansionNeverReached ==
    /\ [](pc = pcParseSQLPart000 =>
            /\ \A j \in 1..Len(parsed.frames) :
                   parsed.frames[j].runes \in TopLevelOrBehindParenthesis(sqlText)
            /\ parsed.sub.visitedSQLs \subseteq TopLevelOrBehindParenthesis(sqlText)
            /\ \A j \in 1..Len(parsed.frames) :
                   parsed.frames[j].c.visitedSQLs \subseteq TopLevelOrBehindParenthesis(sqlText)
            /\ \A j \in 1..Len(parsed.frames) :
                   parsed.frames[j].c.lastToken # kwExecuteImmediate)
    /\ [][(/\ pc = pcParseSQLPart000
           /\ parsed.sub = NoSub
           /\ ReadsImmediateBehindExecute(Top(parsed.frames)))
            => Fails(parsed', ErrExecuteImmediate)]_vars

\* C39: a parseSQL of part_000 entered behind a parenthesis has returned the
\* EXECUTE IMMEDIATE error to its caller, on a text whose string literal
\* holds a statement that names a table; no table has been collected.
C39_StringNotParsedWitness ==
    /\ pc = pcParseSQLPart000
    /\ Len(parsed.frames) = 1
    /\ parsed.sub.err = ErrExecuteImmediate
    /\ Top(parsed.frames).c.tableIDSet = {}
    /\ \E k \in 1..Len(sqlText) :
          HasPrefixAt(sqlText, k, <<"'","S","E","L","E","C","T"," ","*"," ","F","R","O","M"," ">>
                                     \o sBadT \o <<"'">>)

(***************************************************************************)
(* parseSQL on a visited set. parseSQL takes the maps of the call tree as  *)
(* arguments and looks its text up in visitedSQLs before anything else.    *)
(* Here it is called, in both variants, on maps that hold the text         *)
(* already, hold another text, or are empty; job holds the arguments and   *)
(* parsed the result.                                                      *)
(***************************************************************************)

EntryTexts ==
    { <<"S","E","L","E","C","T"," ","1">>,
      <<EAcute>>,
      <<"F","R","O","M"," ",EAcute,".","b">>,
      <<"F","R","O","M"," ","(","S","E","L","E","C","T"," ","1",")"," ","x">>,
      <<"F","R","O","M"," ","o","k",".","a",","," ","t">>,
      <<>> }

EntryArguments(sql) ==
    { [tableIDSet |-> t, visitedSQLs |-> v, aliases |-> a, inSubquery |-> b] :
        t \in {{}, {sOkA}},
        v \in {{}, {sql}, {<<"x">>}},
        a \in {{}, {<<"t">>}},
        b \in BOOLEAN }

EntryInit ==
    /\ stackBuffer \in BOOLEAN
    /\ sqlText \in EntryTexts
    /\ projectID \in {<<>>, pProj}
    /\ validator = <<>>
    /\ pc \in {pcParseSQL, pcParseSQLPart000}
    /\ job \in EntryArguments(sqlText)
    /\ dryRunTableIDSet = {}
    /\ violatingTables = {}
    /\ audit = NotRun
    /\ parsed = NoSub
    /\ verdict = "none"
    /\ reason = NoErr

\* table_name_parser.go, lines 108-118 and on: one invocation of parseSQL.
CallParseSQLOnMaps ==
    /\ pc = pcParseSQL
    /\ parsed' = parseSQL(sqlText, projectID, job.tableIDSet, job.visitedSQLs,
                          job.aliases, job.inSubquery)
    /\ pc' = pcDone
    /\ UNCHANGED <<sqlText, stackBuffer, projectID, validator, job,
                   dryRunTableIDSet, violatingTables, audit, verdict, reason>>

\* part_000, lines 130-136 and on: one invocation of its parseSQL.
CallParseSQLOnMapsPart000 ==
    /\ pc = pcParseSQLPart000
    /\ parsed' = parseSQLPart000(sqlText, projectID, job.tableIDSet,
                                 job.visitedSQLs, job.aliases, job.inSubquery)
    /\ pc' = pcDone
    /\ UNCHANGED <<sqlText, stackBuffer, projectID, validator, job,
                   dryRunTableIDSet, violatingTables, audit, verdict, reason>>

EntryNext == CallParseSQLOnMaps \/ CallParseSQLOnMapsPart000

EntrySpec == EntryInit /\ [][EntryNext]_vars

====
